---------------------------- MODULE Spec2Model ----------------------------
(***************************************************************************)
(* A model of the calculation and validation core of the AgentCore pricing *)
(* calculator (src/src/utils/pricing-utils.ts, src/src/utils/validation.ts,*)
(* src/src/config/pricing-config.ts).                                      *)
(*                                                                         *)
(* The program is a library of synchronous functions; its only state that  *)
(* outlives a call is the module-level rate table.  The state machine is a *)
(* client that calls the functions one after the other: `pricing` is the   *)
(* rate table and `call` is the most recent call (function, arguments,     *)
(* return value).                                                          *)
(*                                                                         *)
(* JavaScript numbers are modelled as exact decimals (sign, magnitude in   *)
(* base-10000 limbs, number of fractional limbs) together with the three   *)
(* non-finite values NaN, Infinity and -Infinity.  Binary floating-point   *)
(* representation error is outside the model.                              *)
(***************************************************************************)
EXTENDS Integers, Sequences, FiniteSets, TLC

(***************************************************************************)
(* Exact decimal arithmetic: magnitudes.                                   *)
(* A magnitude is a little-endian sequence of limbs in 0..BASE-1 without   *)
(* leading (high) zero limbs; <<>> is zero.                                *)
(***************************************************************************)
BASE == 100 * 100

RECURSIVE Strip(_)
Strip(m) ==
  IF m = <<>> THEN <<>>
  ELSE IF m[Len(m)] = 0 THEN Strip(SubSeq(m, 1, Len(m) - 1))
  ELSE m

RECURSIVE MagOfInt(_)
MagOfInt(n) ==
  IF n = 0 THEN <<>> ELSE <<n % BASE>> \o MagOfInt(n \div BASE)

Limb(m, i) == IF i >= 1 /\ i <= Len(m) THEN m[i] ELSE 0

RECURSIVE MagAddC(_, _, _, _)
MagAddC(a, b, i, c) ==
  IF i > Len(a) /\ i > Len(b)
  THEN (IF c = 0 THEN <<>> ELSE <<c>>)
  ELSE LET s == Limb(a, i) + Limb(b, i) + c
       IN  <<s % BASE>> \o MagAddC(a, b, i + 1, s \div BASE)

MagAdd(a, b) == Strip(MagAddC(a, b, 1, 0))

RECURSIVE MagCmpAt(_, _, _)
MagCmpAt(a, b, i) ==
  IF i = 0 THEN 0
  ELSE IF a[i] > b[i] THEN 1
  ELSE IF a[i] < b[i] THEN -1
  ELSE MagCmpAt(a, b, i - 1)

\* -1, 0, 1 as a < b, a = b, a > b, for stripped a and b
MagCmpStripped(a, b) ==
  IF Len(a) > Len(b) THEN 1
  ELSE IF Len(a) < Len(b) THEN -1
  ELSE MagCmpAt(a, b, Len(a))

\* -1, 0, 1 as a < b, a = b, a > b
MagCmp(a, b) == MagCmpStripped(Strip(a), Strip(b))

RECURSIVE MagSubB(_, _, _, _)
MagSubB(a, b, i, w) ==
  IF i > Len(a) THEN <<>>
  ELSE LET d == a[i] - Limb(b, i) - w
       IN  IF d < 0 THEN <<d + BASE>> \o MagSubB(a, b, i + 1, 1)
           ELSE <<d>> \o MagSubB(a, b, i + 1, 0)

\* a - b for a >= b
MagSub(a, b) == Strip(MagSubB(a, b, 1, 0))

RECURSIVE MagMulSmallC(_, _, _, _)
MagMulSmallC(a, k, i, c) ==
  IF i > Len(a)
  THEN MagOfInt(c)
  ELSE LET s == a[i] * k + c
       IN  <<s % BASE>> \o MagMulSmallC(a, k, i + 1, s \div BASE)

\* a * k for a small natural k (k <= BASE * 10)
MagMulSmall(a, k) == Strip(MagMulSmallC(a, k, 1, 0))

RECURSIVE MagMulFrom(_, _, _)
MagMulFrom(a, b, i) ==
  IF i > Len(b) THEN <<>>
  ELSE MagAddC(MagMulSmall(a, b[i]), <<0>> \o MagMulFrom(a, b, i + 1), 1, 0)

MagMul(a, b) == Strip(MagMulFrom(a, b, 1))

RECURSIVE Zeros(_)
Zeros(n) == IF n <= 0 THEN <<>> ELSE <<0>> \o Zeros(n - 1)

(***************************************************************************)
(* Exact decimal arithmetic: finite numbers.                               *)
(* [t |-> "num", neg, mag, fl] is (-1)^neg * mag * BASE^(-fl).  Normal     *)
(* form: mag is stripped, the lowest limb is non-zero when fl > 0, zero is *)
(* not negative.                                                           *)
(***************************************************************************)
RECURSIVE NormLow(_, _)
NormLow(m, fl) ==
  IF m = <<>> THEN [mag |-> <<>>, fl |-> 0]
  ELSE IF fl > 0 /\ m[1] = 0 THEN NormLow(Tail(m), fl - 1)
  ELSE [mag |-> m, fl |-> fl]

Norm(neg, m, fl) ==
  LET r == NormLow(Strip(m), fl)
  IN  [t |-> "num", neg |-> (neg /\ r.mag # <<>>), mag |-> r.mag, fl |-> r.fl]

Zero == [t |-> "num", neg |-> FALSE, mag |-> <<>>, fl |-> 0]

\* the natural number n
N(n) == Norm(FALSE, MagOfInt(n), 0)

Pow10(p) == IF p = 0 THEN 1 ELSE IF p = 1 THEN 10 ELSE IF p = 2 THEN 100
            ELSE IF p = 3 THEN 1000 ELSE 10000

\* n * 10^(-d) for naturals n and d
Dec(n, d) ==
  LET fl == (d + 3) \div 4
  IN  Norm(FALSE, MagMulSmall(MagOfInt(n), Pow10(4 * fl - d)), fl)

NegOf(x) == Norm(~x.neg, x.mag, x.fl)

MaxOf(i, j) == IF i >= j THEN i ELSE j

AlignTo(x, fl) == Zeros(fl - x.fl) \o x.mag

\* -1, 0, 1 as x < y, x = y, x > y
NumCmp(x, y) ==
  LET fl == MaxOf(x.fl, y.fl)
      c  == MagCmp(AlignTo(x, fl), AlignTo(y, fl))
  IN  IF x.neg # y.neg THEN (IF x.neg THEN -1 ELSE 1)
      ELSE IF x.neg THEN -c ELSE c

NumAdd(x, y) ==
  LET fl == MaxOf(x.fl, y.fl)
      a  == AlignTo(x, fl)
      b  == AlignTo(y, fl)
  IN  IF x.neg = y.neg THEN Norm(x.neg, MagAdd(a, b), fl)
      ELSE IF MagCmp(a, b) >= 0 THEN Norm(x.neg, MagSub(a, b), fl)
      ELSE Norm(y.neg, MagSub(b, a), fl)

NumSub(x, y) == NumAdd(x, NegOf(y))

NumMul(x, y) == Norm(x.neg # y.neg, MagMul(x.mag, y.mag), x.fl + y.fl)

\* x / 10^p, 0 <= p <= 4
NumDivPow10(x, p) ==
  IF p = 0 THEN x
  ELSE Norm(x.neg, MagMulSmall(x.mag, Pow10(4 - p)), x.fl + 1)

\* x * 10^p, 0 <= p <= 4
NumMulPow10(x, p) == Norm(x.neg, MagMulSmall(x.mag, Pow10(p)), x.fl)

IsInt(x) == x.fl = 0

\* the largest integer <= x
NumFloor(x) ==
  IF x.fl = 0 THEN x
  ELSE LET ip == IF Len(x.mag) <= x.fl THEN <<>>
                 ELSE SubSeq(x.mag, x.fl + 1, Len(x.mag))
       IN  IF x.neg THEN Norm(TRUE, MagAdd(ip, <<1>>), 0)
           ELSE Norm(FALSE, ip, 0)

Half == Dec(5, 1)

(***************************************************************************)
(* JavaScript values that reach the numeric code: finite numbers, NaN,     *)
(* +/-Infinity, undefined (an absent property) and a value whose typeof is *)
(* not 'number'.  All share one record shape.                              *)
(***************************************************************************)
Special(t) == [t |-> t, neg |-> FALSE, mag |-> <<>>, fl |-> 0]
NaN        == Special("NaN")
Infinity   == Special("Infinity")
NegInfinity == Special("-Infinity")
Undefined  == Special("undefined")
NotANumberType == Special("string")

IsFiniteNum(v) == v.t = "num"
\* typeof v === 'number'
TypeofNumber(v) == v.t \in {"num", "NaN", "Infinity", "-Infinity"}
\* isFinite(v)
isFinite(v) == v.t = "num"
\* isNaN(v): ToNumber(undefined) is NaN
isNaN(v) == v.t \in {"NaN", "undefined", "string"}

\* a < b
JsLt(a, b) ==
  IF isNaN(a) \/ isNaN(b) THEN FALSE
  ELSE IF a.t = "-Infinity" THEN b.t # "-Infinity"
  ELSE IF a.t = "Infinity" THEN FALSE
  ELSE IF b.t = "Infinity" THEN TRUE
  ELSE IF b.t = "-Infinity" THEN FALSE
  ELSE NumCmp(a, b) < 0

\* a <= b
JsLe(a, b) ==
  IF isNaN(a) \/ isNaN(b) THEN FALSE
  ELSE IF a.t = "-Infinity" THEN TRUE
  ELSE IF a.t = "Infinity" THEN b.t = "Infinity"
  ELSE IF b.t = "Infinity" THEN TRUE
  ELSE IF b.t = "-Infinity" THEN FALSE
  ELSE NumCmp(a, b) <= 0

\* a > b
JsGt(a, b) == JsLt(b, a)

JsSign(v) == IF v.t = "Infinity" THEN 1 ELSE IF v.t = "-Infinity" THEN -1
             ELSE IF v.mag = <<>> THEN 0 ELSE IF v.neg THEN -1 ELSE 1

\* a * b
JsMul(a, b) ==
  IF isNaN(a) \/ isNaN(b) THEN NaN
  ELSE IF IsFiniteNum(a) /\ IsFiniteNum(b) THEN NumMul(a, b)
  ELSE LET s == JsSign(a) * JsSign(b)
       IN  IF s = 0 THEN NaN ELSE IF s > 0 THEN Infinity ELSE NegInfinity

\* a + b
JsAdd(a, b) ==
  IF isNaN(a) \/ isNaN(b) THEN NaN
  ELSE IF IsFiniteNum(a) /\ IsFiniteNum(b) THEN NumAdd(a, b)
  ELSE IF IsFiniteNum(a) THEN b
  ELSE IF IsFiniteNum(b) THEN a
  ELSE IF a.t = b.t THEN a ELSE NaN

\* the p with d = 10^p, for d in {1, 10, 100, 1000, 10000}
Log10(d) == CHOOSE p \in 0..4 : Pow10(p) = d

\* a / d for d a power of ten up to 10^4
JsDivBy(a, d) == IF IsFiniteNum(a) THEN NumDivPow10(a, Log10(d))
                 ELSE IF isNaN(a) THEN NaN ELSE a

\* a * d for d a power of ten up to 10^4
JsMulBy(a, d) == IF IsFiniteNum(a) THEN NumMulPow10(a, Log10(d))
                 ELSE IF isNaN(a) THEN NaN ELSE a

\* Math.max(a, b)
MathMax(a, b) == IF isNaN(a) \/ isNaN(b) THEN NaN
                 ELSE IF JsLt(a, b) THEN b ELSE a

\* Math.round(a): the integer nearest to a, a tie going to the larger one
MathRound(a) == IF IsFiniteNum(a) THEN NumFloor(NumAdd(a, Half))
                ELSE IF isNaN(a) THEN NaN ELSE a

(***************************************************************************)
(* src/src/utils/pricing-utils.ts, src/src/config/pricing-config.ts        *)
(***************************************************************************)
UNITS_PER_THOUSAND == 1000
CURRENCY_PRECISION == 4
DISPLAY_PRECISION  == 2

MIN_VALUE           == N(0)
MAX_CPU_HOURS       == N(100000)
MAX_MEMORY_GB_HOURS == N(1000000)
MAX_API_INVOCATIONS == N(1000000000)
MAX_TOOL_INDEXING   == N(100000)
MAX_TOKEN_REQUESTS  == N(1000000000)

DEFAULT_USAGE ==
  [ runtimeCpuHours              |-> N(0),
    runtimeMemoryGBHours         |-> N(0),
    browserToolCpuHours          |-> N(0),
    browserToolMemoryGBHours     |-> N(0),
    codeInterpreterCpuHours      |-> N(0),
    codeInterpreterMemoryGBHours |-> N(0),
    gatewayApiInvocations        |-> N(0),
    gatewaySearchApiInvocations  |-> N(0),
    gatewayToolIndexing          |-> N(0),
    identityTokenRequests        |-> N(0),
    memoryShortTermEvents        |-> N(0),
    memoryLongTermStorageBuiltIn |-> N(0),
    memoryLongTermStorageCustom  |-> N(0),
    memoryLongTermRetrievals     |-> N(0) ]

UsageKeys == DOMAIN DEFAULT_USAGE

\* a variant whose switch has no case for the memory fields
isValidUsageValue_NoMemoryCase(value, type) ==
  IF JsLt(value, MIN_VALUE) THEN FALSE
  ELSE IF type \in {"runtimeCpuHours", "browserToolCpuHours",
                    "codeInterpreterCpuHours"}
       THEN JsLe(value, MAX_CPU_HOURS)
  ELSE IF type \in {"gatewayApiInvocations", "gatewaySearchApiInvocations",
                    "identityTokenRequests", "memoryShortTermEvents",
                    "memoryLongTermStorageBuiltIn",
                    "memoryLongTermStorageCustom", "memoryLongTermRetrievals"}
       THEN JsLe(value, MAX_API_INVOCATIONS)
  ELSE IF type = "gatewayToolIndexing"
       THEN JsLe(value, MAX_TOOL_INDEXING)
  ELSE FALSE

isValidUsageValue(value, type) ==
  IF JsLt(value, MIN_VALUE) THEN FALSE
  ELSE IF type \in {"runtimeCpuHours", "browserToolCpuHours",
                    "codeInterpreterCpuHours"}
       THEN JsLe(value, MAX_CPU_HOURS)
  ELSE IF type \in {"runtimeMemoryGBHours", "browserToolMemoryGBHours",
                    "codeInterpreterMemoryGBHours"}
       THEN JsLe(value, MAX_MEMORY_GB_HOURS)
  ELSE IF type \in {"gatewayApiInvocations", "gatewaySearchApiInvocations",
                    "identityTokenRequests", "memoryShortTermEvents",
                    "memoryLongTermStorageBuiltIn",
                    "memoryLongTermStorageCustom", "memoryLongTermRetrievals"}
       THEN JsLe(value, MAX_API_INVOCATIONS)
  ELSE IF type = "gatewayToolIndexing"
       THEN JsLe(value, MAX_TOOL_INDEXING)
  ELSE FALSE

\* the rate table of pricing-config.ts (the two metadata strings included)
BEDROCK_AGENTCORE_PRICING ==
  [ runtimeCpuRate                   |-> Dec(895, 4),
    runtimeMemoryRate                |-> Dec(945, 5),
    browserToolCpuRate               |-> Dec(895, 4),
    browserToolMemoryRate            |-> Dec(945, 5),
    codeInterpreterCpuRate           |-> Dec(895, 4),
    codeInterpreterMemoryRate        |-> Dec(945, 5),
    gatewayApiInvocationRate         |-> Dec(5, 3),
    gatewaySearchApiRate             |-> Dec(25, 3),
    gatewayToolIndexingRate          |-> Dec(2, 2),
    identityTokenRequestRate         |-> Dec(10, 3),
    memoryShortTermEventRate         |-> Dec(25, 2),
    memoryLongTermStorageBuiltInRate |-> Dec(75, 2),
    memoryLongTermStorageCustomRate  |-> Dec(25, 2),
    memoryLongTermRetrievalRate      |-> Dec(50, 2),
    lastUpdated                      |-> "2025-01-15T00:00:00.000Z",
    sourceUrl                        |-> "https://aws.amazon.com/bedrock/pricing/" ]

\* a variant without the guard for negative quantities
calculateCpuCost_NoGuard(cpuHours, rate) == JsMul(cpuHours, rate)

calculateCpuCost(cpuHours, rate) ==
  IF JsLt(cpuHours, N(0)) THEN N(0) ELSE JsMul(cpuHours, rate)

calculateMemoryCost(memoryGBHours, rate) ==
  IF JsLt(memoryGBHours, N(0)) THEN N(0) ELSE JsMul(memoryGBHours, rate)

calculateApiInvocationsCost(invocations, rate) ==
  IF JsLt(invocations, N(0)) THEN N(0)
  ELSE JsMul(JsDivBy(invocations, UNITS_PER_THOUSAND), rate)

calculateToolIndexingCost(toolCount, rate) ==
  IF JsLt(toolCount, N(0)) THEN N(0)
  ELSE JsMul(JsDivBy(toolCount, 100), rate)

\* Math.round(value * 10^precision) / 10^precision, 0 <= precision <= 4
\* -a
JsNeg(a) == IF IsFiniteNum(a) THEN NegOf(a)
            ELSE IF a.t = "Infinity" THEN NegInfinity
            ELSE IF a.t = "-Infinity" THEN Infinity ELSE NaN

\* a - b
JsSub(a, b) == JsAdd(a, JsNeg(b))

\* Math.min(a, b)
MathMin(a, b) == IF isNaN(a) \/ isNaN(b) THEN NaN
                 ELSE IF JsLt(b, a) THEN b ELSE a

\* tierUsage of tiers[i]: all that remains for the last tier, otherwise at
\* most the width up to the next threshold
TierUsage_NextThresholdOnly(tiers, i, remainingUsage) ==
  IF i < Len(tiers)
  THEN MathMin(remainingUsage, tiers[i + 1].threshold)
  ELSE remainingUsage

TierUsage(tiers, i, remainingUsage) ==
  IF i < Len(tiers)
  THEN MathMin(remainingUsage,
               JsSub(tiers[i + 1].threshold, tiers[i].threshold))
  ELSE remainingUsage

\* the amount added to totalCost for one tier
TierCost_NotPerThousand(tierUsage, rate) == JsMul(tierUsage, rate)

TierCost(tierUsage, rate) ==
  JsMul(JsDivBy(tierUsage, UNITS_PER_THOUSAND), rate)

\* the loop of calculateTieredCost from tiers[i] on; tierUsages is the
\* sequence of the tierUsage values billed so far
RECURSIVE TierLoop(_, _, _, _, _)
AfterTier(tiers, i, remainingUsage, totalCost, tierUsages) ==
  IF JsLe(remainingUsage, N(0))
  THEN [totalCost |-> totalCost, tierUsages |-> tierUsages]
  ELSE TierLoop(tiers, i + 1, remainingUsage, totalCost, tierUsages)

TierStep(tiers, i, remainingUsage, totalCost, tierUsages, tierUsage) ==
  IF JsLe(tierUsage, N(0))
  THEN [totalCost |-> totalCost, tierUsages |-> tierUsages]
  ELSE AfterTier(tiers, i, JsSub(remainingUsage, tierUsage),
                 JsAdd(totalCost, TierCost(tierUsage, tiers[i].rate)),
                 Append(tierUsages, tierUsage))

TierLoop(tiers, i, remainingUsage, totalCost, tierUsages) ==
  IF i > Len(tiers)
  THEN [totalCost |-> totalCost, tierUsages |-> tierUsages]
  ELSE TierStep(tiers, i, remainingUsage, totalCost, tierUsages,
                TierUsage(tiers, i, remainingUsage))

TieredRun(usage, tiers) ==
  IF JsLe(usage, N(0)) \/ Len(tiers) = 0
  THEN [totalCost |-> N(0), tierUsages |-> <<>>]
  ELSE TierLoop(tiers, 1, usage, N(0), <<>>)

calculateTieredCost(usage, tiers) == TieredRun(usage, tiers).totalCost

roundToPrecision(value, precision) ==
  LET factor == Pow10(precision)
  IN  JsDivBy(MathRound(JsMulBy(value, factor)), factor)

\* { ...defaults, ...customRates }: a new object, keys of customRates win
MergeRates(defaults, customRates) ==
  [k \in DOMAIN defaults \cup DOMAIN customRates |->
     IF k \in DOMAIN customRates THEN customRates[k] ELSE defaults[k]]

\* a variant that prices the search invocations at the rate of the line above
UnroundedCosts_CopiedRate(usage, rates) ==
  [ runtimeCpuCost |->
      calculateCpuCost(usage.runtimeCpuHours, rates.runtimeCpuRate),
    runtimeMemoryCost |->
      calculateMemoryCost(usage.runtimeMemoryGBHours, rates.runtimeMemoryRate),
    browserToolCpuCost |->
      calculateCpuCost(usage.browserToolCpuHours, rates.browserToolCpuRate),
    browserToolMemoryCost |->
      calculateMemoryCost(usage.browserToolMemoryGBHours,
                          rates.browserToolMemoryRate),
    codeInterpreterCpuCost |->
      calculateCpuCost(usage.codeInterpreterCpuHours,
                       rates.codeInterpreterCpuRate),
    codeInterpreterMemoryCost |->
      calculateMemoryCost(usage.codeInterpreterMemoryGBHours,
                          rates.codeInterpreterMemoryRate),
    gatewayApiInvocationsCost |->
      calculateApiInvocationsCost(usage.gatewayApiInvocations,
                                  rates.gatewayApiInvocationRate),
    gatewaySearchApiCost |->
      calculateApiInvocationsCost(usage.gatewaySearchApiInvocations,
                                  rates.gatewayApiInvocationRate),
    gatewayToolIndexingCost |->
      calculateToolIndexingCost(usage.gatewayToolIndexing,
                                rates.gatewayToolIndexingRate),
    identityTokenRequestsCost |->
      calculateApiInvocationsCost(usage.identityTokenRequests,
                                  rates.identityTokenRequestRate),
    memoryShortTermEventsCost |->
      calculateApiInvocationsCost(usage.memoryShortTermEvents,
                                  rates.memoryShortTermEventRate),
    memoryLongTermStorageBuiltInCost |->
      calculateApiInvocationsCost(usage.memoryLongTermStorageBuiltIn,
                                  rates.memoryLongTermStorageBuiltInRate),
    memoryLongTermStorageCustomCost |->
      calculateApiInvocationsCost(usage.memoryLongTermStorageCustom,
                                  rates.memoryLongTermStorageCustomRate),
    memoryLongTermRetrievalsCost |->
      calculateApiInvocationsCost(usage.memoryLongTermRetrievals,
                                  rates.memoryLongTermRetrievalRate) ]

\* the per-field costs before rounding (lines 142-165)
UnroundedCosts(usage, rates) ==
  [ runtimeCpuCost |->
      calculateCpuCost(usage.runtimeCpuHours, rates.runtimeCpuRate),
    runtimeMemoryCost |->
      calculateMemoryCost(usage.runtimeMemoryGBHours, rates.runtimeMemoryRate),
    browserToolCpuCost |->
      calculateCpuCost(usage.browserToolCpuHours, rates.browserToolCpuRate),
    browserToolMemoryCost |->
      calculateMemoryCost(usage.browserToolMemoryGBHours,
                          rates.browserToolMemoryRate),
    codeInterpreterCpuCost |->
      calculateCpuCost(usage.codeInterpreterCpuHours,
                       rates.codeInterpreterCpuRate),
    codeInterpreterMemoryCost |->
      calculateMemoryCost(usage.codeInterpreterMemoryGBHours,
                          rates.codeInterpreterMemoryRate),
    gatewayApiInvocationsCost |->
      calculateApiInvocationsCost(usage.gatewayApiInvocations,
                                  rates.gatewayApiInvocationRate),
    gatewaySearchApiCost |->
      calculateApiInvocationsCost(usage.gatewaySearchApiInvocations,
                                  rates.gatewaySearchApiRate),
    gatewayToolIndexingCost |->
      calculateToolIndexingCost(usage.gatewayToolIndexing,
                                rates.gatewayToolIndexingRate),
    identityTokenRequestsCost |->
      calculateApiInvocationsCost(usage.identityTokenRequests,
                                  rates.identityTokenRequestRate),
    memoryShortTermEventsCost |->
      calculateApiInvocationsCost(usage.memoryShortTermEvents,
                                  rates.memoryShortTermEventRate),
    memoryLongTermStorageBuiltInCost |->
      calculateApiInvocationsCost(usage.memoryLongTermStorageBuiltIn,
                                  rates.memoryLongTermStorageBuiltInRate),
    memoryLongTermStorageCustomCost |->
      calculateApiInvocationsCost(usage.memoryLongTermStorageCustom,
                                  rates.memoryLongTermStorageCustomRate),
    memoryLongTermRetrievalsCost |->
      calculateApiInvocationsCost(usage.memoryLongTermRetrievals,
                                  rates.memoryLongTermRetrievalRate) ]

\* lines 167-171: the sum of the unrounded costs, in source order
UnroundedTotal(c) ==
  JsAdd(JsAdd(JsAdd(JsAdd(JsAdd(JsAdd(JsAdd(JsAdd(JsAdd(JsAdd(JsAdd(JsAdd(JsAdd(
    c.runtimeCpuCost, c.runtimeMemoryCost), c.browserToolCpuCost),
    c.browserToolMemoryCost), c.codeInterpreterCpuCost),
    c.codeInterpreterMemoryCost), c.gatewayApiInvocationsCost),
    c.gatewaySearchApiCost), c.gatewayToolIndexingCost),
    c.identityTokenRequestsCost), c.memoryShortTermEventsCost),
    c.memoryLongTermStorageBuiltInCost), c.memoryLongTermStorageCustomCost),
    c.memoryLongTermRetrievalsCost)

\* a variant that totals the rounded costs instead of the unrounded ones
RoundedBreakdown_SumsRounded(c) ==
  [k \in DOMAIN c \cup {"totalMonthlyCost"} |->
     IF k = "totalMonthlyCost"
     THEN roundToPrecision(
            UnroundedTotal([j \in DOMAIN c |->
                              roundToPrecision(c[j], CURRENCY_PRECISION)]),
            CURRENCY_PRECISION)
     ELSE roundToPrecision(c[k], CURRENCY_PRECISION)]

\* lines 167-189: the total of the unrounded costs c, and every cost and the
\* total rounded for the result
RoundedBreakdown(c) ==
  [k \in DOMAIN c \cup {"totalMonthlyCost"} |->
     IF k = "totalMonthlyCost"
     THEN roundToPrecision(UnroundedTotal(c), CURRENCY_PRECISION)
     ELSE roundToPrecision(c[k], CURRENCY_PRECISION)]

\* calculateCostBreakdown with the default table `defaults` in force
calculateCostBreakdown(usage, customRates, defaults) ==
  RoundedBreakdown(UnroundedCosts(usage, MergeRates(defaults, customRates)))

\* a variant that reads the two gateway invocation counters from each other
RawValueOf_SwappedGatewayKeys(usage, key) ==
  LET source == IF key = "gatewayApiInvocations"
                THEN "gatewaySearchApiInvocations"
                ELSE IF key = "gatewaySearchApiInvocations"
                THEN "gatewayApiInvocations" ELSE key
  IN  IF source \in DOMAIN usage THEN usage[source] ELSE Undefined

\* line 330: the property of the input that is read for a key
RawValueOf(usage, key) ==
  IF key \in DOMAIN usage THEN usage[key] ELSE Undefined

\* a variant that starts from { ...DEFAULT_USAGE, ...usage }
InitialSanitized_SpreadsInput(usage) == MergeRates(DEFAULT_USAGE, usage)

\* line 325: the record the sanitized values are written into
InitialSanitized(usage) == DEFAULT_USAGE

sanitizeUsageParameters(usage) ==
  [key \in DOMAIN InitialSanitized(usage) |->
     LET rawValue == RawValueOf(usage, key)
     IN  IF TypeofNumber(rawValue) /\ isFinite(rawValue)
         THEN LET clampedValue == MathMax(MIN_VALUE, rawValue)
              IN  IF isValidUsageValue(clampedValue, key)
                  THEN clampedValue ELSE N(0)
         ELSE InitialSanitized(usage)[key]]

HIGH_COST_THRESHOLD == N(100000)

validateCostBreakdown_HighIsInvalid(breakdown) ==
  LET high == IF JsGt(breakdown.totalMonthlyCost, HIGH_COST_THRESHOLD)
              THEN {<<"high", "totalMonthlyCost">>} ELSE {}
      negs == {<<"negative", k>> : k \in {j \in DOMAIN breakdown :
                                            JsLt(breakdown[j], N(0))}}
      bads == {<<"invalid", k>> : k \in {j \in DOMAIN breakdown :
                  ~isFinite(breakdown[j]) \/ isNaN(breakdown[j])}}
  IN  [isValid  |-> high = {} /\ negs = {} /\ bads = {},
       warnings |-> high \cup negs \cup bads]

\* warnings are modelled by their kind and the key they name
validateCostBreakdown(breakdown) ==
  LET high == IF JsGt(breakdown.totalMonthlyCost, HIGH_COST_THRESHOLD)
              THEN {<<"high", "totalMonthlyCost">>} ELSE {}
      negs == {<<"negative", k>> : k \in {j \in DOMAIN breakdown :
                                            JsLt(breakdown[j], N(0))}}
      bads == {<<"invalid", k>> : k \in {j \in DOMAIN breakdown :
                  ~isFinite(breakdown[j]) \/ isNaN(breakdown[j])}}
  IN  [isValid  |-> negs = {} /\ bads = {},
       warnings |-> high \cup negs \cup bads]

(***************************************************************************)
(* The five-field product variant of pricing-utils.ts (lines 375-709).     *)
(***************************************************************************)
calculateAgentInvocationsCost(invocations, rate) ==
  IF JsLt(invocations, N(0)) THEN N(0)
  ELSE JsMul(JsDivBy(invocations, UNITS_PER_THOUSAND), rate)

calculateKnowledgeBaseQueriesCost(queries, rate) ==
  IF JsLt(queries, N(0)) THEN N(0)
  ELSE JsMul(JsDivBy(queries, UNITS_PER_THOUSAND), rate)

calculateActionGroupExecutionsCost(executions, rate) ==
  IF JsLt(executions, N(0)) THEN N(0)
  ELSE JsMul(JsDivBy(executions, UNITS_PER_THOUSAND), rate)

calculateStorageCost(storageGB, rate) ==
  IF JsLt(storageGB, N(0)) THEN N(0) ELSE JsMul(storageGB, rate)

calculateDataIngestionCost(ingestionGB, rate) ==
  IF JsLt(ingestionGB, N(0)) THEN N(0) ELSE JsMul(ingestionGB, rate)

\* lines 509-513: the per-field costs before rounding
UnroundedCosts5(usage, rates) ==
  [ agentInvocationsCost |->
      calculateAgentInvocationsCost(usage.agentInvocations,
                                    rates.agentInvocationRate),
    knowledgeBaseQueriesCost |->
      calculateKnowledgeBaseQueriesCost(usage.knowledgeBaseQueries,
                                        rates.knowledgeBaseQueryRate),
    actionGroupExecutionsCost |->
      calculateActionGroupExecutionsCost(usage.actionGroupExecutions,
                                         rates.actionGroupExecutionRate),
    storageCost |->
      calculateStorageCost(usage.storageGB, rates.storageRatePerGB),
    dataIngestionCost |->
      calculateDataIngestionCost(usage.dataIngestionGB,
                                 rates.dataIngestionRatePerGB) ]

\* line 515: the sum of the unrounded costs, in source order
UnroundedTotal5(c) ==
  JsAdd(JsAdd(JsAdd(JsAdd(c.agentInvocationsCost, c.knowledgeBaseQueriesCost),
    c.actionGroupExecutionsCost), c.storageCost), c.dataIngestionCost)

\* lines 517-524
RoundedBreakdown5(c) ==
  [k \in DOMAIN c \cup {"totalMonthlyCost"} |->
     IF k = "totalMonthlyCost"
     THEN roundToPrecision(UnroundedTotal5(c), CURRENCY_PRECISION)
     ELSE roundToPrecision(c[k], CURRENCY_PRECISION)]

calculateCostBreakdown5(usage, customRates, defaults) ==
  RoundedBreakdown5(UnroundedCosts5(usage, MergeRates(defaults, customRates)))

\* the primitive cost functions, by name
PrimitiveNames ==
  {"calculateCpuCost", "calculateMemoryCost", "calculateApiInvocationsCost",
   "calculateToolIndexingCost", "calculateAgentInvocationsCost",
   "calculateKnowledgeBaseQueriesCost", "calculateActionGroupExecutionsCost",
   "calculateStorageCost", "calculateDataIngestionCost"}

ApplyPrimitive(fn, q, rate) ==
  CASE fn = "calculateCpuCost" -> calculateCpuCost(q, rate)
    [] fn = "calculateMemoryCost" -> calculateMemoryCost(q, rate)
    [] fn = "calculateApiInvocationsCost" ->
         calculateApiInvocationsCost(q, rate)
    [] fn = "calculateToolIndexingCost" -> calculateToolIndexingCost(q, rate)
    [] fn = "calculateAgentInvocationsCost" ->
         calculateAgentInvocationsCost(q, rate)
    [] fn = "calculateKnowledgeBaseQueriesCost" ->
         calculateKnowledgeBaseQueriesCost(q, rate)
    [] fn = "calculateActionGroupExecutionsCost" ->
         calculateActionGroupExecutionsCost(q, rate)
    [] fn = "calculateStorageCost" -> calculateStorageCost(q, rate)
    [] fn = "calculateDataIngestionCost" ->
         calculateDataIngestionCost(q, rate)

(***************************************************************************)
(* src/src/utils/validation.ts                                             *)
(* A string is a sequence of one-character strings.                        *)
(***************************************************************************)
Null == Special("null")

VALIDATION_CONSTRAINTS ==
  [ runtimeCpuHours |->
      [min |-> N(0), max |-> N(100000), maxDecimalPlaces |-> 2],
    runtimeMemoryGBHours |->
      [min |-> N(0), max |-> N(1000000), maxDecimalPlaces |-> 2],
    browserToolCpuHours |->
      [min |-> N(0), max |-> N(100000), maxDecimalPlaces |-> 2],
    browserToolMemoryGBHours |->
      [min |-> N(0), max |-> N(1000000), maxDecimalPlaces |-> 2],
    codeInterpreterCpuHours |->
      [min |-> N(0), max |-> N(100000), maxDecimalPlaces |-> 2],
    codeInterpreterMemoryGBHours |->
      [min |-> N(0), max |-> N(1000000), maxDecimalPlaces |-> 2],
    gatewayApiInvocations |->
      [min |-> N(0), max |-> N(100000000), maxDecimalPlaces |-> 0],
    gatewaySearchApiInvocations |->
      [min |-> N(0), max |-> N(100000000), maxDecimalPlaces |-> 0],
    gatewayToolIndexing |->
      [min |-> N(0), max |-> N(100000), maxDecimalPlaces |-> 0],
    identityTokenRequests |->
      [min |-> N(0), max |-> N(100000000), maxDecimalPlaces |-> 0],
    memoryShortTermEvents |->
      [min |-> N(0), max |-> N(100000000), maxDecimalPlaces |-> 0],
    memoryLongTermStorageBuiltIn |->
      [min |-> N(0), max |-> N(100000000), maxDecimalPlaces |-> 0],
    memoryLongTermStorageCustom |->
      [min |-> N(0), max |-> N(100000000), maxDecimalPlaces |-> 0],
    memoryLongTermRetrievals |->
      [min |-> N(0), max |-> N(100000000), maxDecimalPlaces |-> 0] ]

Digits == {"0", "1", "2", "3", "4", "5", "6", "7", "8", "9"}

DigitValue(c) ==
  CASE c = "0" -> 0 [] c = "1" -> 1 [] c = "2" -> 2 [] c = "3" -> 3
    [] c = "4" -> 4 [] c = "5" -> 5 [] c = "6" -> 6 [] c = "7" -> 7
    [] c = "8" -> 8 [] c = "9" -> 9

\* the whitespace characters of the modelled alphabet
IsSpace(c) == c = " "

\* s.replace(/[^...]/g, ''): keep the characters of s that are in `keep`
RECURSIVE KeepChars(_, _)
KeepChars(s, keep) ==
  IF s = <<>> THEN <<>>
  ELSE IF Head(s) \in keep THEN <<Head(s)>> \o KeepChars(Tail(s), keep)
  ELSE KeepChars(Tail(s), keep)

\* s.replace(/c/g, '')
RemoveChar(s, c) == KeepChars(s, {s[i] : i \in 1..Len(s)} \ {c})

\* s.indexOf(c), 0-based, -1 when absent
IndexOf(s, c) ==
  IF \E i \in 1..Len(s) : s[i] = c
  THEN (CHOOSE i \in 1..Len(s) : s[i] = c /\ \A j \in 1..(i - 1) : s[j] # c) - 1
  ELSE -1

\* s.trim() === ''
TrimIsEmpty(s) == \A i \in 1..Len(s) : IsSpace(s[i])

\* a variant that leaves every decimal point in place
sanitizeNumericInput_KeepsAllDots(input) ==
  LET s2 == KeepChars(input, Digits \cup {".", "-"})
  IN  IF \E i \in 1..Len(s2) : s2[i] = "-"
      THEN LET isNegative == s2[1] = "-"
               s3 == RemoveChar(s2, "-")
           IN  IF isNegative THEN <<"-">> \o s3 ELSE s3
      ELSE s2

sanitizeNumericInput(input) ==
  LET s1 == KeepChars(input, Digits \cup {".", "-"})
      decimalIndex == IndexOf(s1, ".")
      s2 == IF decimalIndex # -1
            THEN LET beforeDecimal == SubSeq(s1, 1, decimalIndex + 1)
                     afterDecimal  ==
                       RemoveChar(SubSeq(s1, decimalIndex + 2, Len(s1)), ".")
                 IN  beforeDecimal \o afterDecimal
            ELSE s1
  IN  IF \E i \in 1..Len(s2) : s2[i] = "-"
      THEN LET isNegative == s2[1] = "-"
               s3 == RemoveChar(s2, "-")
           IN  IF isNegative THEN <<"-">> \o s3 ELSE s3
      ELSE s2

\* the longest prefix of s made of digits
RECURSIVE DigitPrefix(_)
DigitPrefix(s) ==
  IF s # <<>> /\ Head(s) \in Digits
  THEN <<Head(s)>> \o DigitPrefix(Tail(s))
  ELSE <<>>

\* the natural number written by the digit string ds, as a magnitude
RECURSIVE MagOfDigits(_, _)
MagOfDigits(ds, acc) ==
  IF ds = <<>> THEN acc
  ELSE MagOfDigits(Tail(ds),
                   MagAdd(MagMulSmall(acc, 10), MagOfInt(DigitValue(Head(ds)))))

\* parseFloat(s) for s over digits, '.' and '-': the longest prefix that is
\* a decimal literal [-]digits[.digits]; NaN when it holds no digit
parseFloat(s) ==
  LET neg   == s # <<>> /\ Head(s) = "-"
      body  == IF neg THEN Tail(s) ELSE s
      ip    == DigitPrefix(body)
      rest  == SubSeq(body, Len(ip) + 1, Len(body))
      fp    == IF rest # <<>> /\ Head(rest) = "." THEN DigitPrefix(Tail(rest))
               ELSE <<>>
      fl    == (Len(fp) + 3) \div 4
      pad   == Zeros(4 * fl - Len(fp))
      padded == fp \o [i \in 1..Len(pad) |-> "0"]
  IN  IF ip = <<>> /\ fp = <<>> THEN NaN
      ELSE Norm(neg, MagOfDigits(ip \o padded, <<>>), fl)

\* a variant that returns whatever parseFloat returned
FiniteOrNull_Unchecked(parsed) == parsed

\* lines 164-168: null for a value that is NaN or not finite
FiniteOrNull(parsed) ==
  IF isNaN(parsed) \/ ~isFinite(parsed) THEN Null ELSE parsed

\* lines 158-162: null for a text without digits, parseFloat otherwise
ParseSanitized(sanitized) ==
  IF sanitized = <<>> \/ sanitized = <<"-">> \/ sanitized = <<".">>
  THEN Null
  ELSE FiniteOrNull(parseFloat(sanitized))

parseNumericInput(input) == ParseSanitized(sanitizeNumericInput(input))

\* decimal digits of a limb 1..9999, and its trailing zero digits
LimbDigits(l) == IF l >= 1000 THEN 4 ELSE IF l >= 100 THEN 3
                 ELSE IF l >= 10 THEN 2 ELSE 1
LimbTrailingZeros(l) == IF l % 10 # 0 THEN 0 ELSE IF l % 100 # 0 THEN 1
                        ELSE IF l % 1000 # 0 THEN 2 ELSE 3
IntDigits(n) == IF n >= 10 THEN 2 ELSE 1

\* the characters after the '.' of value.toString() for a finite value that
\* is not an integer; 0 when the string holds no '.'.  Number.toString
\* writes a value below 1e-6 in exponent notation (d[.ddd]e-x).
CharsAfterPoint(value) ==
  LET allDigits  == 4 * (Len(value.mag) - 1) + LimbDigits(value.mag[Len(value.mag)])
      tz         == LimbTrailingZeros(value.mag[1])
      fracDigits == 4 * value.fl - tz
      e          == allDigits - 1 - 4 * value.fl
      k          == allDigits - tz
  IN  IF e >= -6 THEN fracDigits
      ELSE IF k = 1 THEN 0
      ELSE (k - 1) + 2 + IntDigits(-e)

countDecimalPlaces(value) ==
  IF ~IsFiniteNum(value) THEN 0
  ELSE IF NumFloor(value) = value THEN 0
  ELSE CharsAfterPoint(value)

\* a variant that checks the decimal places before the maximum
CheckParsed_DecimalsBeforeMax(parsedValue, constraints) ==
  IF parsedValue = Null
  THEN [isValid |-> FALSE, errorMessage |-> <<"NOT_A_NUMBER">>]
  ELSE IF JsLt(parsedValue, Zero)
  THEN [isValid |-> FALSE, errorMessage |-> <<"NEGATIVE_NUMBER">>]
  ELSE IF JsLt(parsedValue, constraints.min)
  THEN [isValid |-> FALSE, errorMessage |-> <<"TOO_SMALL", constraints.min>>]
  ELSE IF countDecimalPlaces(parsedValue) > constraints.maxDecimalPlaces
  THEN [isValid |-> FALSE,
        errorMessage |-> <<"INVALID_DECIMAL_PLACES",
                           constraints.maxDecimalPlaces>>]
  ELSE IF JsGt(parsedValue, constraints.max)
  THEN [isValid |-> FALSE, errorMessage |-> <<"TOO_LARGE", constraints.max>>]
  ELSE [isValid |-> TRUE, sanitizedValue |-> parsedValue]

\* lines 216-264: the checks on the parsed value, in source order
CheckParsed(parsedValue, constraints) ==
  IF parsedValue = Null
  THEN [isValid |-> FALSE, errorMessage |-> <<"NOT_A_NUMBER">>]
  ELSE IF JsLt(parsedValue, Zero)
  THEN [isValid |-> FALSE, errorMessage |-> <<"NEGATIVE_NUMBER">>]
  ELSE IF JsLt(parsedValue, constraints.min)
  THEN [isValid |-> FALSE, errorMessage |-> <<"TOO_SMALL", constraints.min>>]
  ELSE IF JsGt(parsedValue, constraints.max)
  THEN [isValid |-> FALSE, errorMessage |-> <<"TOO_LARGE", constraints.max>>]
  ELSE IF countDecimalPlaces(parsedValue) > constraints.maxDecimalPlaces
  THEN [isValid |-> FALSE,
        errorMessage |-> <<"INVALID_DECIMAL_PLACES",
                           constraints.maxDecimalPlaces>>]
  ELSE [isValid |-> TRUE, sanitizedValue |-> parsedValue]

\* a variant that checks every field against the constraints of the
\* memory hours
validateNumericInput_MemoryConstraints(input, constraintKey, isRequired) ==
  IF TrimIsEmpty(input)
  THEN IF isRequired
       THEN [isValid |-> FALSE, errorMessage |-> <<"REQUIRED">>]
       ELSE [isValid |-> TRUE, sanitizedValue |-> Zero]
  ELSE CheckParsed(parseNumericInput(input),
                   VALIDATION_CONSTRAINTS["runtimeMemoryGBHours"])

validateNumericInput(input, constraintKey, isRequired) ==
  IF TrimIsEmpty(input)
  THEN IF isRequired
       THEN [isValid |-> FALSE, errorMessage |-> <<"REQUIRED">>]
       ELSE [isValid |-> TRUE, sanitizedValue |-> Zero]
  ELSE CheckParsed(parseNumericInput(input),
                   VALIDATION_CONSTRAINTS[constraintKey])

\* lines 281-284: the text read for a key (params[key] || '') and its result
FieldResult(params, key) ==
  validateNumericInput(IF key \in DOMAIN params THEN params[key] ELSE <<>>,
                       key, FALSE)

\* result.sanitizedValue || 0
OrZero(v) == IF v = Zero \/ isNaN(v) THEN Zero ELSE v

\* a variant that stores a sanitized value for the failed fields too
CollectResults_AlwaysSanitized(results) ==
  [ isValid |-> \A key \in DOMAIN results : results[key].isValid,
    errors  |-> [key \in {k \in DOMAIN results : ~results[k].isValid} |->
                   results[key].errorMessage],
    sanitizedValues |->
      [key \in DOMAIN results |->
         IF results[key].isValid THEN OrZero(results[key].sanitizedValue)
         ELSE Zero] ]

\* lines 286-298: errors and sanitizedValues from the per-key results
CollectResults(results) ==
  [ isValid |-> \A key \in DOMAIN results : results[key].isValid,
    errors  |-> [key \in {k \in DOMAIN results : ~results[k].isValid} |->
                   results[key].errorMessage],
    sanitizedValues |->
      [key \in {k \in DOMAIN results : results[k].isValid} |->
         OrZero(results[key].sanitizedValue)] ]

validateUsageParameters(params) ==
  CollectResults([key \in DOMAIN VALIDATION_CONSTRAINTS |->
                    FieldResult(params, key)])

\* errorMessage: null of validateInputRealTime
NoMessage == <<"null">>

\* a variant that shows the error of an empty input too
RealTimeResult_ShowsWhenEmpty(result, value) ==
  [ isValid |-> result.isValid,
    errorMessage |-> IF "errorMessage" \in DOMAIN result
                     THEN result.errorMessage ELSE NoMessage,
    sanitizedValue |-> IF "sanitizedValue" \in DOMAIN result
                       THEN result.sanitizedValue ELSE Null,
    showError |-> (result.isValid = FALSE) ]

\* lines 317-325: the result of validateNumericInput with absent members as
\* null, and the showError flag
RealTimeResult(result, value) ==
  [ isValid |-> result.isValid,
    errorMessage |-> IF "errorMessage" \in DOMAIN result
                     THEN result.errorMessage ELSE NoMessage,
    sanitizedValue |-> IF "sanitizedValue" \in DOMAIN result
                       THEN result.sanitizedValue ELSE Null,
    showError |-> (result.isValid = FALSE /\ ~TrimIsEmpty(value)) ]

validateInputRealTime(value, constraintKey, isRequired) ==
  RealTimeResult(validateNumericInput(value, constraintKey, isRequired), value)

(***************************************************************************)
(* calculation-engine.ts: the analyses derived from calculateCostBreakdown. *)
(* Each analysis is modelled by its result and by `reached`, the sequence   *)
(* of the usage records it hands to calculateCostBreakdown, in call order.  *)
(***************************************************************************)
\* customRates omitted by the caller
NoRates == [k \in {} |-> N(0)]

\* calculateBatchCosts: scenarios.map(sanitize, then calculate)
BatchReached(scenarios) ==
  [i \in DOMAIN scenarios |-> sanitizeUsageParameters(scenarios[i])]

calculateBatchCosts_FirstScenarioOnly(scenarios, defaults) ==
  [i \in DOMAIN scenarios |->
     calculateCostBreakdown(BatchReached(scenarios)[1], NoRates, defaults)]

calculateBatchCosts(scenarios, defaults) ==
  [i \in DOMAIN scenarios |->
     calculateCostBreakdown(BatchReached(scenarios)[i], NoRates, defaults)]

\* compareScenarios: the differences are keyed by the cost field they
\* subtract; totalPercentageChange is kept as the exact quotient num / den
CompareReached(baseline, comparison) ==
  <<sanitizeUsageParameters(baseline), sanitizeUsageParameters(comparison)>>

Differences(baselineCosts, comparisonCosts) ==
  [f \in DOMAIN baselineCosts |-> JsSub(comparisonCosts[f], baselineCosts[f])]

PercentageChange_Unguarded(totalMonthlyCostDiff, baselineTotal) ==
  [num |-> JsMulBy(totalMonthlyCostDiff, 100), den |-> baselineTotal]

PercentageChange(totalMonthlyCostDiff, baselineTotal) ==
  IF JsGt(baselineTotal, N(0))
  THEN [num |-> JsMulBy(totalMonthlyCostDiff, 100), den |-> baselineTotal]
  ELSE [num |-> N(0), den |-> N(1)]

Comparison(baselineCosts, comparisonCosts, differences) ==
  [baseline |-> baselineCosts,
   comparison |-> comparisonCosts,
   differences |-> differences,
   percentageChanges |->
     [totalPercentageChange |->
        PercentageChange(differences.totalMonthlyCost,
                         baselineCosts.totalMonthlyCost)],
   summary |-> [isMoreExpensive |-> JsGt(differences.totalMonthlyCost, N(0))]]

ComparisonOf(baselineCosts, comparisonCosts) ==
  Comparison(baselineCosts, comparisonCosts,
             Differences(baselineCosts, comparisonCosts))

compareScenarios(baseline, comparison, defaults) ==
  ComparisonOf(
    calculateCostBreakdown(CompareReached(baseline, comparison)[1],
                           NoRates, defaults),
    calculateCostBreakdown(CompareReached(baseline, comparison)[2],
                           NoRates, defaults))

\* generateOptimizationSuggestions: a suggestion is modelled by the name of
\* its check; the record goes to calculateCostBreakdown as it was passed
SuggestionsReached(usage) == <<usage>>

Suggest(check, name) == IF check THEN <<name>> ELSE <<>>

Twice(v) == JsMul(v, N(2))

FirstOnly(seq) == IF seq = <<>> THEN <<>> ELSE <<Head(seq)>>

SuggestionsFor_StopsAtFirst(usage, costs, totalCpuCost, totalMemoryCost, totalMemoryStorageCost) ==
  FirstOnly(
  Suggest(JsGt(totalCpuCost, Twice(totalMemoryCost)), "cpu")
  \o Suggest(JsGt(totalMemoryCost, Twice(totalCpuCost)), "memory")
  \o Suggest(JsGt(usage.gatewaySearchApiInvocations,
                  Twice(usage.gatewayApiInvocations)), "search")
  \o Suggest(JsGt(usage.gatewayToolIndexing, N(1000)), "indexing")
  \o Suggest(JsGt(usage.identityTokenRequests, usage.gatewayApiInvocations),
             "identity")
  \o Suggest(JsGt(totalMemoryStorageCost,
                  JsMul(costs.totalMonthlyCost, Dec(3, 1))), "storage")
  \o Suggest(JsGt(usage.memoryLongTermRetrievals,
                  Twice(usage.memoryShortTermEvents)), "retrievals")
  \o Suggest(JsGt(usage.memoryLongTermStorageBuiltIn,
                  JsMul(usage.memoryLongTermStorageCustom, N(3))), "builtIn")
  \o Suggest(JsGt(costs.totalMonthlyCost, N(1000)), "monitoring"))

SuggestionsFor(usage, costs, totalCpuCost, totalMemoryCost, totalMemoryStorageCost) ==
  Suggest(JsGt(totalCpuCost, Twice(totalMemoryCost)), "cpu")
  \o Suggest(JsGt(totalMemoryCost, Twice(totalCpuCost)), "memory")
  \o Suggest(JsGt(usage.gatewaySearchApiInvocations,
                  Twice(usage.gatewayApiInvocations)), "search")
  \o Suggest(JsGt(usage.gatewayToolIndexing, N(1000)), "indexing")
  \o Suggest(JsGt(usage.identityTokenRequests, usage.gatewayApiInvocations),
             "identity")
  \o Suggest(JsGt(totalMemoryStorageCost,
                  JsMul(costs.totalMonthlyCost, Dec(3, 1))), "storage")
  \o Suggest(JsGt(usage.memoryLongTermRetrievals,
                  Twice(usage.memoryShortTermEvents)), "retrievals")
  \o Suggest(JsGt(usage.memoryLongTermStorageBuiltIn,
                  JsMul(usage.memoryLongTermStorageCustom, N(3))), "builtIn")
  \o Suggest(JsGt(costs.totalMonthlyCost, N(1000)), "monitoring")

SuggestionsFrom(usage, costs) ==
  SuggestionsFor(usage, costs,
    JsAdd(JsAdd(costs.runtimeCpuCost, costs.browserToolCpuCost),
          costs.codeInterpreterCpuCost),
    JsAdd(JsAdd(costs.runtimeMemoryCost, costs.browserToolMemoryCost),
          costs.codeInterpreterMemoryCost),
    JsAdd(costs.memoryLongTermStorageBuiltInCost,
          costs.memoryLongTermStorageCustomCost))

generateOptimizationSuggestions(usage, defaults) ==
  SuggestionsFrom(usage,
    calculateCostBreakdown(SuggestionsReached(usage)[1], NoRates, defaults))

\* Math.pow(base, n) for an integer n >= 0; anything to the power 0 is 1
RECURSIVE MathPow(_, _)
MathPow(base, n) == IF n = 0 THEN N(1) ELSE JsMul(MathPow(base, n - 1), base)

\* Math.abs(a)
MathAbs(a) == IF IsFiniteNum(a) THEN Norm(FALSE, a.mag, a.fl)
              ELSE IF isNaN(a) THEN NaN ELSE Infinity

\* calculateProjectedCosts
MONTHS == 12

GrowthMultiplier_FromMonth(growthRate, month) ==
  MathPow(JsAdd(N(1), growthRate), month)

GrowthMultiplier(growthRate, month) ==
  MathPow(JsAdd(N(1), growthRate), month - 1)

ProjectedUsage(currentUsage, growthMultiplier) ==
  [k \in UsageKeys |-> MathRound(JsMul(currentUsage[k], growthMultiplier))]

ProjectedReached(currentUsage, growthRate) ==
  [month \in 1..MONTHS |->
     sanitizeUsageParameters(
       ProjectedUsage(currentUsage, GrowthMultiplier(growthRate, month)))]

MonthProjection(month, projectedUsage, defaults) ==
  [month |-> month,
   usage |-> projectedUsage,
   costs |-> calculateCostBreakdown(sanitizeUsageParameters(projectedUsage),
                                    NoRates, defaults)]

MonthlyProjections(currentUsage, growthRate, defaults) ==
  [month \in 1..MONTHS |->
     MonthProjection(month,
       ProjectedUsage(currentUsage, GrowthMultiplier(growthRate, month)),
       defaults)]

\* monthlyProjections.reduce((sum, p) => sum + p.costs.totalMonthlyCost, 0)
\* over the first n projections
RECURSIVE SumOfTotals(_, _)
SumOfTotals(monthlyProjections, n) ==
  IF n = 0 THEN N(0)
  ELSE JsAdd(SumOfTotals(monthlyProjections, n - 1),
             monthlyProjections[n].costs.totalMonthlyCost)

\* averageMonthlyCost is kept as the exact quotient num / den
Projection(monthlyProjections, totalAnnualCost) ==
  [monthlyProjections |-> monthlyProjections,
   totalAnnualCost    |-> totalAnnualCost,
   averageMonthlyCost |-> [num |-> totalAnnualCost, den |-> N(MONTHS)]]

ProjectionOf(monthlyProjections) ==
  Projection(monthlyProjections,
             SumOfTotals(monthlyProjections, Len(monthlyProjections)))

calculateProjectedCosts(currentUsage, growthRate, defaults) ==
  ProjectionOf(MonthlyProjections(currentUsage, growthRate, defaults))

\* calculateBreakEvenAnalysis
MAX_SEARCH     == 10000000
maxIterations  == 50

\* the usage assumed for mid invocations
BreakEvenUsage(mid) ==
  [k \in UsageKeys |->
     IF k = "runtimeCpuHours" THEN NumMul(N(mid), Dec(1, 1))
     ELSE IF k = "runtimeMemoryGBHours" THEN NumMul(N(mid), Dec(5, 1))
     ELSE IF k = "gatewayApiInvocations" THEN N(mid)
     ELSE N(0)]

Profit(mid, costs, fixedCosts, revenuePerInvocation) ==
  JsSub(JsSub(JsMul(N(mid), revenuePerInvocation), costs.totalMonthlyCost),
        fixedCosts)

\* the loop of findBreakEvenPoint; steps records low, high and the usage
\* record of every iteration
RECURSIVE SearchLoop(_, _, _, _, _, _, _)
SearchStep_SwappedBranches(low, high, mid, profit, steps, targetProfit, fixedCosts, revenuePerInvocation, defaults) ==
  IF JsLt(MathAbs(JsSub(profit, targetProfit)), Dec(1, 2))
  THEN [result |-> mid, steps |-> steps, low |-> low, high |-> high]
  ELSE IF ~JsLt(profit, targetProfit)
  THEN SearchLoop(mid + 1, high, steps, targetProfit, fixedCosts,
                  revenuePerInvocation, defaults)
  ELSE SearchLoop(low, mid, steps, targetProfit, fixedCosts,
                  revenuePerInvocation, defaults)

SearchStep(low, high, mid, profit, steps, targetProfit, fixedCosts, revenuePerInvocation, defaults) ==
  IF JsLt(MathAbs(JsSub(profit, targetProfit)), Dec(1, 2))
  THEN [result |-> mid, steps |-> steps, low |-> low, high |-> high]
  ELSE IF JsLt(profit, targetProfit)
  THEN SearchLoop(mid + 1, high, steps, targetProfit, fixedCosts,
                  revenuePerInvocation, defaults)
  ELSE SearchLoop(low, mid, steps, targetProfit, fixedCosts,
                  revenuePerInvocation, defaults)

SearchAt(low, high, mid, steps, targetProfit, fixedCosts, revenuePerInvocation, defaults) ==
  SearchStep(low, high, mid,
    Profit(mid, calculateCostBreakdown(BreakEvenUsage(mid), NoRates, defaults),
           fixedCosts, revenuePerInvocation),
    Append(steps, [low |-> low, high |-> high, usage |-> BreakEvenUsage(mid)]),
    targetProfit, fixedCosts, revenuePerInvocation, defaults)

SearchLoop(low, high, steps, targetProfit, fixedCosts, revenuePerInvocation, defaults) ==
  IF low < high /\ Len(steps) < maxIterations
  THEN SearchAt(low, high, (low + high) \div 2, steps, targetProfit,
                fixedCosts, revenuePerInvocation, defaults)
  ELSE [result |-> low, steps |-> steps, low |-> low, high |-> high]

\* a variant whose search starts with high above the largest usage
findBreakEvenPoint_HighAboveMax(targetProfit, fixedCosts, revenuePerInvocation, defaults) ==
  SearchLoop(0, 2 * MAX_SEARCH, <<>>, targetProfit, fixedCosts,
             revenuePerInvocation, defaults)

findBreakEvenPoint(targetProfit, fixedCosts, revenuePerInvocation, defaults) ==
  SearchLoop(0, MAX_SEARCH, <<>>, targetProfit, fixedCosts,
             revenuePerInvocation, defaults)

UsagesOf(steps) == [i \in DOMAIN steps |-> steps[i].usage]

BreakEvenReached(atZero, at10k) ==
  UsagesOf(atZero.steps) \o UsagesOf(at10k.steps)

\* low and high of a search at every iteration and at its end
BoundsOf(search) ==
  [i \in DOMAIN search.steps |->
     [low |-> search.steps[i].low, high |-> search.steps[i].high]]
  \o <<[low |-> search.low, high |-> search.high]>>

\* the result of the analysis from its two searches
BreakEvenAnalysis(atZero, at10k, fixedCosts, revenuePerInvocation) ==
  [breakEvenInvocations |-> atZero.result,
   profitableAt10k |-> at10k.result,
   monthlyFixedCosts |-> fixedCosts,
   revenuePerInvocation |-> revenuePerInvocation]

calculateBreakEvenAnalysis(fixedCosts, revenuePerInvocation, defaults) ==
  BreakEvenAnalysis(
    findBreakEvenPoint(N(0), fixedCosts, revenuePerInvocation, defaults),
    findBreakEvenPoint(N(10000), fixedCosts, revenuePerInvocation, defaults),
    fixedCosts, revenuePerInvocation)

(***************************************************************************)
(* pricing-utils.ts: display formatting.  A formatted text is a sequence   *)
(* of one-character strings.                                               *)
(***************************************************************************)
DigitChars == <<"0", "1", "2", "3", "4", "5", "6", "7", "8", "9">>

DigitChar(d) == DigitChars[d + 1]

\* the four decimal digits of a limb, most significant first
LimbChars(l) ==
  <<DigitChar(l \div 1000), DigitChar((l \div 100) % 10),
    DigitChar((l \div 10) % 10), DigitChar(l % 10)>>

\* the decimal digits of a magnitude, most significant first, four per limb
RECURSIVE MagChars(_)
MagChars(m) ==
  IF m = <<>> THEN <<>> ELSE MagChars(Tail(m)) \o LimbChars(Head(m))

RECURSIVE DropLeadingZeros(_)
DropLeadingZeros(s) ==
  IF s # <<>> /\ Head(s) = "0" THEN DropLeadingZeros(Tail(s)) ELSE s

RECURSIVE DropTrailingZeros(_)
DropTrailingZeros(s) ==
  IF s # <<>> /\ s[Len(s)] = "0"
  THEN DropTrailingZeros(SubSeq(s, 1, Len(s) - 1)) ELSE s

\* the digits of the integer part of |x|, "0" for a part of zero
IntegerChars(x) ==
  LET ip == IF Len(x.mag) <= x.fl THEN <<>>
            ELSE SubSeq(x.mag, x.fl + 1, Len(x.mag))
      s  == DropLeadingZeros(MagChars(ip))
  IN  IF s = <<>> THEN <<"0">> ELSE s

\* the digits of the fractional part of |x|, without trailing zeros
FractionChars(x) ==
  LET low == SubSeq(x.mag, 1, IF Len(x.mag) <= x.fl THEN Len(x.mag) ELSE x.fl)
  IN  DropTrailingZeros(
        [i \in 1..(4 * (x.fl - Len(low))) |-> "0"] \o MagChars(low))

\* x / 10^p for any natural p
RECURSIVE DivByPow10(_, _)
DivByPow10(x, p) ==
  IF p <= 4 THEN NumDivPow10(x, p) ELSE DivByPow10(NumDivPow10(x, 4), p - 4)

\* Number.prototype.toString of a finite value: plain decimal notation for
\* 1e-6 <= |x| < 1e21, exponent notation (d[.ddd]e+x, d[.ddd]e-x) otherwise
NumberToString(x) ==
  LET ip     == IntegerChars(x)
      fp     == FractionChars(x)
      sign   == IF x.neg THEN <<"-">> ELSE <<>>
      zeros  == Len(fp) - Len(DropLeadingZeros(fp))
      digits == IF ip = <<"0">> THEN DropLeadingZeros(fp)
                ELSE DropTrailingZeros(ip \o fp)
      mant   == IF Len(digits) = 1 THEN digits
                ELSE <<Head(digits)>> \o <<".">> \o Tail(digits)
      ExpChars(e) == DropLeadingZeros(MagChars(MagOfInt(e)))
  IN  IF x.mag = <<>> THEN <<"0">>
      ELSE IF Len(ip) > 21
        THEN sign \o mant \o <<"e", "+">> \o ExpChars(Len(ip) - 1)
      ELSE IF ip = <<"0">> /\ zeros >= 6
        THEN sign \o mant \o <<"e", "-">> \o ExpChars(zeros + 1)
      ELSE IF fp = <<>> THEN sign \o ip
      ELSE sign \o ip \o <<".">> \o fp

\* the digits of an integer part in groups of three separated by ','
RECURSIVE GroupThousands(_)
GroupThousands(s) ==
  IF Len(s) <= 3 THEN s
  ELSE GroupThousands(SubSeq(s, 1, Len(s) - 3)) \o <<",">>
         \o SubSeq(s, Len(s) - 2, Len(s))

\* new Intl.NumberFormat('en-US', {style: 'currency', currency: 'USD',
\* minimumFractionDigits: d, maximumFractionDigits: d}).format(x) for a
\* finite x >= 0: '$', the integer part in groups of three, and exactly d
\* fraction digits, the value rounded to d digits with halves going up
IntlCurrencyFormat(x, d) ==
  LET scaled == NumFloor(NumAdd(NumMulPow10(x, d), Half))
      all    == DropLeadingZeros(MagChars(scaled.mag))
      padded == [i \in 1..(d + 1 - Len(all)) |-> "0"] \o all
      ip     == SubSeq(padded, 1, Len(padded) - d)
      fp     == SubSeq(padded, Len(padded) - d + 1, Len(padded))
  IN  <<"$">> \o GroupThousands(ip)
        \o (IF d = 0 THEN <<>> ELSE <<".">> \o fp)

\* a variant that writes the sign after the currency symbol
formatCurrency_SignAfterSymbol(value, precision, showCents) ==
  IF ~isFinite(value) \/ isNaN(value) THEN <<"$", "0", ".", "0", "0">>
  ELSE LET valueToFormat == IF showCents THEN MathAbs(value)
                            ELSE MathRound(MathAbs(value))
           formatted == IntlCurrencyFormat(valueToFormat,
                                           IF showCents THEN precision ELSE 0)
       IN  IF JsLt(value, N(0)) THEN <<"$", "-">> \o Tail(formatted)
           ELSE formatted

\* formatCurrency(value, {precision, showCents}) with the default locale
formatCurrency(value, precision, showCents) ==
  IF ~isFinite(value) \/ isNaN(value) THEN <<"$", "0", ".", "0", "0">>
  ELSE LET valueToFormat == IF showCents THEN MathAbs(value)
                            ELSE MathRound(MathAbs(value))
           formatted == IntlCurrencyFormat(valueToFormat,
                                           IF showCents THEN precision ELSE 0)
       IN  IF JsLt(value, N(0)) THEN <<"-">> \o formatted ELSE formatted

\* the unit formatLargeNumber divides by, as a power of ten, and its suffix
LargeNumberUnit_ThousandFromTenThousand(absValue) ==
  IF NumCmp(absValue, N(1000000000)) >= 0 THEN [p |-> 9, suffix |-> <<"B">>]
  ELSE IF NumCmp(absValue, N(1000000)) >= 0 THEN [p |-> 6, suffix |-> <<"M">>]
  ELSE IF NumCmp(absValue, N(10000)) >= 0 THEN [p |-> 3, suffix |-> <<"K">>]
  ELSE [p |-> 0, suffix |-> <<>>]

LargeNumberUnit(absValue) ==
  IF NumCmp(absValue, N(1000000000)) >= 0 THEN [p |-> 9, suffix |-> <<"B">>]
  ELSE IF NumCmp(absValue, N(1000000)) >= 0 THEN [p |-> 6, suffix |-> <<"M">>]
  ELSE IF NumCmp(absValue, N(1000)) >= 0 THEN [p |-> 3, suffix |-> <<"K">>]
  ELSE [p |-> 0, suffix |-> <<>>]

formatLargeNumber(value, precision) ==
  IF ~isFinite(value) \/ isNaN(value) THEN <<"0">>
  ELSE LET absValue == MathAbs(value)
           sign     == IF JsLt(value, N(0)) THEN <<"-">> ELSE <<>>
           unit     == LargeNumberUnit(absValue)
       IN  sign
             \o NumberToString(
                  roundToPrecision(DivByPow10(absValue, unit.p), precision))
             \o unit.suffix

(***************************************************************************)
(* The client: inputs it may pass, and the call it makes.                  *)
(***************************************************************************)
\* pricing: the module-level rate table; call: the most recent call;
\* overridden: some earlier calculateCostBreakdown call passed custom rates
VARIABLES pricing, call, overridden
vars == <<pricing, call, overridden>>

MaxCount == 9
MaxLen   == 3

NoArgs == [k \in {} |-> Zero]

Idle == [fn |-> "none", arg |-> NoArgs, ret |-> NoArgs, ghost |-> NoArgs]

\* values a client may store in a field of a usage record
NumberValues ==
  {N(i) : i \in 0..MaxCount} \cup
  { Dec(1, 2), Dec(5, 1), Dec(12345, 2), N(1000), N(10000),
    N(100000), Dec(10000001, 2), N(100001), N(1000000), N(1000001),
    N(200000000), N(1000000000), N(1000000001),
    NegOf(N(100)), NegOf(Dec(5, 1)), NaN, Infinity, NegInfinity }

RawValues == NumberValues \cup {Undefined, NotANumberType}

\* a second field that is set next to the one that varies
SecondKey == "gatewaySearchApiInvocations"

SampleUsage ==
  [ runtimeCpuHours              |-> Dec(12345, 2),
    runtimeMemoryGBHours         |-> Dec(5005, 1),
    browserToolCpuHours          |-> N(40),
    browserToolMemoryGBHours     |-> N(80),
    codeInterpreterCpuHours      |-> Dec(25, 2),
    codeInterpreterMemoryGBHours |-> Dec(5, 1),
    gatewayApiInvocations        |-> N(200000000),
    gatewaySearchApiInvocations  |-> N(50000000),
    gatewayToolIndexing          |-> N(200),
    identityTokenRequests        |-> N(10000),
    memoryShortTermEvents        |-> N(100000),
    memoryLongTermStorageBuiltIn |-> N(10000),
    memoryLongTermStorageCustom  |-> N(3),
    memoryLongTermRetrievals     |-> N(20000) ]

Override(base, k1, v1, k2, v2) ==
  [k \in DOMAIN base \cup {k1, k2} |->
     IF k = k1 THEN v1 ELSE IF k = k2 THEN v2 ELSE base[k]]

\* Partial<UsageParameters> as an untyped caller may build it
RawUsageInputs ==
  { Override(base, k1, v1, k2, v2) :
      base \in {NoArgs, SampleUsage},
      k1 \in UsageKeys \cup {"unknownField"}, v1 \in RawValues,
      k2 \in {SecondKey}, v2 \in {N(1), Undefined} }

\* UsageParameters: every field a number, not necessarily a sane one
TypedUsageInputs ==
  { Override(base, k1, v1, k2, v2) :
      base \in {DEFAULT_USAGE, SampleUsage},
      k1 \in UsageKeys, v1 \in NumberValues,
      k2 \in {SecondKey}, v2 \in {N(0), N(1)} }

CustomRatesInputs ==
  { NoArgs,
    [k \in {"gatewayApiInvocationRate"} |-> Dec(1, 3)],
    [k \in {"runtimeCpuRate", "memoryShortTermEventRate"} |->
       IF k = "runtimeCpuRate" THEN Dec(1, 1) ELSE N(0)],
    [k \in {"gatewayToolIndexingRate", "runtimeMemoryRate"} |->
       IF k = "runtimeMemoryRate" THEN Dec(1, 2) ELSE Dec(5, 2)] }

\* a variant that merges the custom rates into the default table itself
\* (Object.assign(defaults, customRates))
PricingAfterCall_AssignsDefaults(defaults, customRates) ==
  MergeRates(defaults, customRates)

\* line 139: the spread builds a new object; the default table is not written
PricingAfterCall(defaults, customRates) == defaults

Usage5Inputs ==
  { [agentInvocations |-> a, knowledgeBaseQueries |-> q,
     actionGroupExecutions |-> N(2000), storageGB |-> g,
     dataIngestionGB |-> N(5)] :
      a \in {N(i) : i \in 0..MaxCount} \cup {N(10000), NegOf(N(100))},
      q \in {N(0), N(1), N(5000)},
      g \in {N(0), N(10), Dec(105, 1)} }

Rates5Inputs ==
  { [agentInvocationRate |-> r, knowledgeBaseQueryRate |-> Dec(40, 5),
     actionGroupExecutionRate |-> Dec(35, 5), storageRatePerGB |-> Dec(10, 2),
     dataIngestionRatePerGB |-> Dec(20, 2)] : r \in {Dec(25, 5), Dec(1, 3)} }

RateInputs == {N(0), Dec(25, 5), Dec(5, 3), Dec(2, 2), Dec(895, 4),
               Dec(945, 5), Dec(75, 2), N(2)}

Alphabet == {"0", "1", "5", ".", "-", " ", "a"}

RECURSIVE StringsUpTo(_)
StringsUpTo(n) ==
  IF n = 0 THEN {<<>>}
  ELSE LET shorter == StringsUpTo(n - 1)
       IN  shorter \cup {Append(s, c) : s \in shorter, c \in Alphabet}

SampleTexts ==
  { <<"1", "0", "0", "0", "0", "0">>,
    <<"1", "0", "0", "0", "0", "0", ".", "0", "1">>,
    <<"1", "0", "0", "0", "0", "0", ".", "5", "5", "5">>,
    <<"1", "0", "0", "0", "0", "1">>,
    <<"1", "0", "0", "0", "0", "0", "0">>,
    <<"1", "0", "0", "0", "0", "0", "0", ".", "5">>,
    <<"1", "0", "0", "0", "0", "0", "1">>,
    <<"1", "0", "0", "0", "0", "0", "0", "0", "0">>,
    <<"1", "0", "0", "0", "0", "0", "0", "0", "1">>,
    <<"2", "0", "0", "0", "0", "0", "0", "0", "0">>,
    <<"1", "0", "0", "0", "0", "0", "0", "0", "0", "0">>,
    <<"1", "2", "3", ".", "4", "5">>,
    <<"1", "2", "3", ".", "4", "5", "6">>,
    <<"0", ".", "0", "0", "0", "0", "0", "0", "1">>,
    <<"0", ".", "0", "0", "0", "0", "0", "0", "1", "5">>,
    <<"-", "1", ".", "5", "5", "5">>,
    <<"$", "1", ",", "2", "3", "4", ".", "5", "6">>,
    <<"1", "e", "5">>,
    <<" ", "1", "2", " ">>,
    <<"a", "-", "5">>,
    <<"1", "-", "2">>,
    <<"-", "1", "0", "0", "0", "0", "0", "0", "0", "1">>,
    <<"9", "9", "9", "9", "9", ".", "9", "9", "9">>,
    <<"1", "0", ".", "5", "0">>,
    <<"-", "0">> }

TextInputs == StringsUpTo(MaxLen) \cup SampleTexts

\* the texts of a form field while it is being typed
TypedTexts == StringsUpTo(MaxLen - 1) \cup SampleTexts

\* values given to roundToPrecision: halves of either sign that a double
\* holds exactly, the values of the unit tests, values off the half
RoundInputs ==
  { Zero, Dec(5, 1), NegOf(Dec(5, 1)), Dec(25, 1), NegOf(Dec(25, 1)),
    Dec(125, 3), NegOf(Dec(125, 3)), Dec(375, 3), NegOf(Dec(375, 3)),
    Dec(1235, 3), Dec(123456, 5), Dec(123556, 5), Dec(20052, 4),
    NegOf(Dec(123456, 5)), NegOf(Dec(126, 3)), NegOf(Dec(124, 3)),
    Dec(45, 6), Dec(7, 5), N(3), NegOf(N(3)), NaN, Infinity, NegInfinity }
    \cup {Dec(i, 1) : i \in 0..MaxCount}

\* values given to formatCurrency: the values of the unit tests, values on
\* and off a rounding half, values with several groups of thousands
CurrencyInputs ==
  { Zero, Dec(123, 2), Dec(123456, 2), Dec(1, 3), Dec(5, 3), Dec(123456, 5),
    NegOf(Dec(123, 2)), NegOf(Dec(123456, 2)), NegOf(Dec(1, 3)),
    NegOf(Dec(4, 1)), NegOf(Dec(5, 1)), Dec(5, 1), Dec(25, 1),
    Dec(999995, 3), Dec(1234567891, 3), NegOf(N(1000000)), N(999),
    N(1000), NegOf(Dec(12345, 4)), NaN, Infinity, NegInfinity }

\* values given to formatLargeNumber: the values of the unit tests, values
\* on and next to each unit, values that round up to the next unit
LargeNumberInputs ==
  { Zero, N(500), N(1500), N(1500000), N(1500000000), NegOf(N(1500)),
    N(999), Dec(99995, 2), N(1000), N(999999), N(999950), N(1000000),
    N(999999999), N(1000000000), N(1234567), NegOf(Dec(1, 2)),
    NegOf(Dec(6, 2)), Dec(5, 2), Dec(12, 8), NegOf(N(1000000)),
    NegOf(NumMul(N(25), N(100000000))), Dec(123456, 2),
    Norm(FALSE, Zeros(7) \o <<100>>, 0), NaN, Infinity, NegInfinity }

MaxPrecision == CURRENCY_PRECISION

Tier(threshold, rate) == [threshold |-> N(threshold), rate |-> rate]

\* the tier lists of the unit tests, flat tiers at every rate, lists whose
\* first threshold is not 0, and lists that are not strictly increasing
TierLists ==
  { <<>>, <<Tier(0, Dec(1, 3))>>,
    <<Tier(0, Dec(1, 3)), Tier(1000, Dec(8, 4)), Tier(5000, Dec(6, 4))>>,
    <<Tier(0, Dec(1, 3)), Tier(1000, Dec(8, 4))>>,
    <<Tier(100, Dec(1, 3)), Tier(1000, Dec(8, 4)), Tier(5000, N(0))>>,
    <<Tier(0, N(2)), Tier(0, Dec(1, 3)), Tier(1000, Dec(8, 4))>>,
    <<Tier(1000, Dec(1, 3)), Tier(0, Dec(8, 4)), Tier(5000, Dec(6, 4))>> }
    \cup {<<Tier(0, rate)>> : rate \in RateInputs}
    \cup {<<Tier(t, Dec(1, 3))>> : t \in 1..MaxCount}
    \cup {<<Tier(0, Dec(1, 3)), Tier(t, Dec(8, 4))>> : t \in 1..MaxCount}

TierUsageInputs == NumberValues \cup {N(500), N(5000), N(6000)}

\* breakdowns handed to validateCostBreakdown by a caller: the breakdown of
\* the unit test with one cost field and the total replaced
validBreakdown ==
  [agentInvocationsCost |-> N(1), knowledgeBaseQueriesCost |-> N(2),
   actionGroupExecutionsCost |-> Dec(5, 1), storageCost |-> N(10),
   dataIngestionCost |-> N(5), totalMonthlyCost |-> Dec(185, 1)]

CostValues ==
  { Zero, N(1), Dec(185, 1), NegOf(N(1)), NegOf(Dec(1, 4)), NaN, Infinity,
    NegInfinity, N(100000), Dec(1000000001, 4), N(150000) }

BreakdownInputs ==
  { [[validBreakdown EXCEPT ![k] = v] EXCEPT !.totalMonthlyCost = t] :
      k \in {"agentInvocationsCost", "storageCost"},
      v \in CostValues, t \in CostValues }

\* scenarios given to the derived analyses: sane records and records with
\* a field out of range, negative, NaN or infinite
ScenarioInputs ==
  { Override(base, k1, v1, SecondKey, N(1)) :
      base \in {DEFAULT_USAGE, SampleUsage},
      k1 \in {"runtimeCpuHours"},
      v1 \in {N(5), N(100001), NaN, NegOf(N(100))} }

MaxScenarios == 2

ScenarioLists ==
  UNION {[1..n -> ScenarioInputs] : n \in 0..MaxScenarios}

GrowthRates ==
  {N(0), Dec(1, 1), N(1), NegOf(Dec(5, 1)), NegOf(N(2)), NaN, Infinity}

FixedCostInputs == {N(0), N(100), N(5000), NegOf(N(50)), NaN}

RevenueInputs ==
  {N(0), Dec(1, 3), Dec(137, 4), Dec(2, 2), Dec(1, 1), N(1), NaN, Infinity}

ParamKeys == {"runtimeCpuHours", "gatewayApiInvocations", "gatewayToolIndexing"}
ParamTexts == {<<>>, <<" ">>, <<"a">>, <<"-", "1">>, <<"1", ".", "5">>,
               <<"7">>, <<"1", "0", "0", "0", "0", "1">>,
               <<"1", ".", "5", "5", "5">>}

\* Record<string, string>: some keys missing, one key unknown to the table
ParamsInputs ==
  { [k \in ks |-> IF k = "runtimeCpuHours" THEN t1
                  ELSE IF k = "gatewayApiInvocations" THEN t2 ELSE t3] :
      ks \in SUBSET (ParamKeys \cup {"unknownField"}),
      t1 \in ParamTexts, t2 \in ParamTexts, t3 \in {<<>>, <<"7">>, <<"a">>} }

Init ==
  /\ pricing = BEDROCK_AGENTCORE_PRICING
  /\ call = Idle
  /\ overridden = FALSE

\* sanitizeUsageParameters(usage), on a fresh record or on the record the
\* previous sanitizeUsageParameters call returned
SanitizeCall ==
  /\ \/ /\ call.fn = "none"
        /\ \E usage \in RawUsageInputs :
             call' = [fn |-> "sanitizeUsageParameters", arg |-> usage,
                      ret |-> sanitizeUsageParameters(usage),
                      ghost |-> [chained |-> FALSE]]
     \/ /\ call.fn = "sanitizeUsageParameters"
        /\ ~call.ghost.chained
        /\ call' = [fn |-> "sanitizeUsageParameters", arg |-> call.ret,
                    ret |-> sanitizeUsageParameters(call.ret),
                    ghost |-> [chained |-> TRUE, original |-> call.arg]]
  /\ UNCHANGED <<pricing, overridden>>

\* the records calculateCostBreakdown may be called on now: a fresh typed
\* record, or the record sanitizeUsageParameters just returned for a record
\* of the client
UsageArguments ==
  IF call.fn = "none" THEN TypedUsageInputs
  ELSE IF call.fn = "sanitizeUsageParameters"
          /\ "validated" \notin DOMAIN call.ghost THEN {call.ret}
  ELSE {}

\* calculateCostBreakdown(usage, customRates)
CalculateCall ==
  \E customRates \in CustomRatesInputs, usage \in UsageArguments :
    /\ call' = [fn |-> "calculateCostBreakdown",
                arg |-> [usage |-> usage, customRates |-> customRates],
                ret |-> calculateCostBreakdown(usage, customRates, pricing),
                ghost |-> [sanitized |-> call.fn = "sanitizeUsageParameters"]]
    /\ pricing' = PricingAfterCall(pricing, customRates)
    /\ overridden' = (overridden \/ customRates # NoArgs)

\* the five-field calculateCostBreakdown, every rate supplied by the caller
Calculate5Call ==
  /\ call.fn = "none"
  /\ \E usage \in Usage5Inputs, customRates \in Rates5Inputs :
       call' = [fn |-> "calculateCostBreakdown5",
                arg |-> [usage |-> usage, customRates |-> customRates],
                ret |-> calculateCostBreakdown5(usage, customRates, pricing),
                ghost |-> NoArgs]
  /\ pricing' = PricingAfterCall(pricing, NoArgs)
  /\ UNCHANGED overridden

\* validateCostBreakdown(breakdown) on the breakdown just calculated
ValidateBreakdownCall ==
  /\ call.fn = "calculateCostBreakdown"
  /\ call' = [fn |-> "validateCostBreakdown", arg |-> call.ret,
              ret |-> validateCostBreakdown(call.ret),
              ghost |-> [sanitized |-> call.ghost.sanitized,
                         customRates |-> call.arg.customRates]]
  /\ UNCHANGED <<pricing, overridden>>

\* one of the primitive cost functions
\* validateCostBreakdown on a breakdown the caller built itself
ValidateGivenBreakdownCall ==
  /\ call.fn = "none"
  /\ \E breakdown \in BreakdownInputs :
       call' = [fn |-> "validateCostBreakdown", arg |-> breakdown,
                ret |-> validateCostBreakdown(breakdown),
                ghost |-> [sanitized |-> FALSE, customRates |-> NoArgs]]
  /\ UNCHANGED <<pricing, overridden>>

\* the derived analyses call calculateCostBreakdown without custom rates
BatchCall ==
  /\ call.fn = "none"
  /\ \E scenarios \in ScenarioLists :
       call' = [fn |-> "calculateBatchCosts", arg |-> scenarios,
                ret |-> calculateBatchCosts(scenarios, pricing),
                ghost |-> [reached |-> BatchReached(scenarios)]]
  /\ pricing' = PricingAfterCall(pricing, NoRates)
  /\ UNCHANGED overridden

CompareCall ==
  /\ call.fn = "none"
  /\ \E baseline \in ScenarioInputs, comparison \in ScenarioInputs :
       call' = [fn |-> "compareScenarios",
                arg |-> [baseline |-> baseline, comparison |-> comparison],
                ret |-> compareScenarios(baseline, comparison, pricing),
                ghost |-> [reached |-> CompareReached(baseline, comparison)]]
  /\ pricing' = PricingAfterCall(pricing, NoRates)
  /\ UNCHANGED overridden

SuggestionsCall ==
  /\ call.fn = "none"
  /\ \E usage \in TypedUsageInputs :
       call' = [fn |-> "generateOptimizationSuggestions", arg |-> usage,
                ret |-> generateOptimizationSuggestions(usage, pricing),
                ghost |-> [reached |-> SuggestionsReached(usage)]]
  /\ pricing' = PricingAfterCall(pricing, NoRates)
  /\ UNCHANGED overridden

ProjectedCall ==
  /\ call.fn = "none"
  /\ \E currentUsage \in ScenarioInputs, growthRate \in GrowthRates :
       call' = [fn |-> "calculateProjectedCosts",
                arg |-> [currentUsage |-> currentUsage,
                         growthRate |-> growthRate],
                ret |-> calculateProjectedCosts(currentUsage, growthRate,
                                                pricing),
                ghost |-> [reached |->
                             ProjectedReached(currentUsage, growthRate)]]
  /\ pricing' = PricingAfterCall(pricing, NoRates)
  /\ UNCHANGED overridden

BreakEvenCall ==
  /\ call.fn = "none"
  /\ \E fixedCosts \in FixedCostInputs,
        revenuePerInvocation \in RevenueInputs :
       \E atZero \in {findBreakEvenPoint(N(0), fixedCosts,
                                         revenuePerInvocation, pricing)},
          at10k \in {findBreakEvenPoint(N(10000), fixedCosts,
                                        revenuePerInvocation, pricing)} :
         call' = [fn |-> "calculateBreakEvenAnalysis",
                  arg |-> [fixedCosts |-> fixedCosts,
                           revenuePerInvocation |-> revenuePerInvocation],
                  ret |-> BreakEvenAnalysis(atZero, at10k, fixedCosts,
                                            revenuePerInvocation),
                  ghost |-> [reached |-> BreakEvenReached(atZero, at10k),
                             searches |-> <<BoundsOf(atZero),
                                            BoundsOf(at10k)>>]]
  /\ pricing' = PricingAfterCall(pricing, NoRates)
  /\ UNCHANGED overridden

PrimitiveCall ==
  /\ call.fn = "none"
  /\ \E fn \in PrimitiveNames, q \in NumberValues, rate \in RateInputs :
       call' = [fn |-> fn, arg |-> [q |-> q, rate |-> rate],
                ret |-> ApplyPrimitive(fn, q, rate), ghost |-> NoArgs]
  /\ UNCHANGED <<pricing, overridden>>

ValidateNumericCall ==
  /\ call.fn = "none"
  /\ \E input \in TextInputs, key \in DOMAIN VALIDATION_CONSTRAINTS,
        isRequired \in BOOLEAN :
       call' = [fn |-> "validateNumericInput",
                arg |-> [input |-> input, constraintKey |-> key,
                         isRequired |-> isRequired],
                ret |-> validateNumericInput(input, key, isRequired),
                ghost |-> NoArgs]
  /\ UNCHANGED <<pricing, overridden>>

ValidateUsageCall ==
  /\ call.fn = "none"
  /\ \E params \in ParamsInputs :
       call' = [fn |-> "validateUsageParameters", arg |-> params,
                ret |-> validateUsageParameters(params), ghost |-> NoArgs]
  /\ UNCHANGED <<pricing, overridden>>

ValidateRealTimeCall ==
  /\ call.fn = "none"
  /\ \E value \in TypedTexts, key \in DOMAIN VALIDATION_CONSTRAINTS,
        isRequired \in BOOLEAN :
       call' = [fn |-> "validateInputRealTime",
                arg |-> [input |-> value, constraintKey |-> key,
                         isRequired |-> isRequired],
                ret |-> validateInputRealTime(value, key, isRequired),
                ghost |-> NoArgs]
  /\ UNCHANGED <<pricing, overridden>>

SanitizeTextCall ==
  /\ call.fn = "none"
  /\ \E input \in TextInputs :
       call' = [fn |-> "sanitizeNumericInput", arg |-> input,
                ret |-> sanitizeNumericInput(input), ghost |-> NoArgs]
  /\ UNCHANGED <<pricing, overridden>>

ParseCall ==
  /\ call.fn = "none"
  /\ \E input \in TextInputs :
       call' = [fn |-> "parseNumericInput", arg |-> input,
                ret |-> parseNumericInput(input), ghost |-> NoArgs]
  /\ UNCHANGED <<pricing, overridden>>

RoundCall ==
  /\ call.fn = "none"
  /\ \E value \in RoundInputs, precision \in 0..MaxPrecision :
       call' = [fn |-> "roundToPrecision",
                arg |-> [value |-> value, precision |-> precision],
                ret |-> roundToPrecision(value, precision), ghost |-> NoArgs]
  /\ UNCHANGED <<pricing, overridden>>

TieredCall ==
  /\ call.fn = "none"
  /\ \E usage \in TierUsageInputs, tiers \in TierLists :
       call' = [fn |-> "calculateTieredCost",
                arg |-> [usage |-> usage, tiers |-> tiers],
                ret |-> calculateTieredCost(usage, tiers),
                ghost |-> TieredRun(usage, tiers).tierUsages]
  /\ UNCHANGED <<pricing, overridden>>

\* the client drops the result and is ready for its next call
Return ==
  /\ call.fn # "none"
  /\ call' = Idle
  /\ UNCHANGED <<pricing, overridden>>

FormatCurrencyCall ==
  /\ call.fn = "none"
  /\ \E value \in CurrencyInputs, precision \in 0..MaxPrecision,
        showCents \in BOOLEAN :
       call' = [fn |-> "formatCurrency",
                arg |-> [value |-> value, precision |-> precision,
                         showCents |-> showCents],
                ret |-> formatCurrency(value, precision, showCents),
                ghost |-> NoArgs]
  /\ UNCHANGED <<pricing, overridden>>

FormatLargeNumberCall ==
  /\ call.fn = "none"
  /\ \E value \in LargeNumberInputs, precision \in 0..MaxPrecision :
       call' = [fn |-> "formatLargeNumber",
                arg |-> [value |-> value, precision |-> precision],
                ret |-> formatLargeNumber(value, precision), ghost |-> NoArgs]
  /\ UNCHANGED <<pricing, overridden>>

\* a client that hands a value the validator accepted to the sanitizer
SanitizeValidatedCall ==
  /\ call.fn = "validateNumericInput"
  /\ ~call.arg.isRequired
  /\ call.ret.isValid
  /\ \E usage \in {[k \in {call.arg.constraintKey} |-> call.ret.sanitizedValue]} :
       call' = [fn |-> "sanitizeUsageParameters", arg |-> usage,
                ret |-> sanitizeUsageParameters(usage),
                ghost |-> [chained |-> FALSE, validated |-> call.arg]]
  /\ UNCHANGED <<pricing, overridden>>

Next ==
  \/ SanitizeCall
  \/ CalculateCall
  \/ Calculate5Call
  \/ ValidateBreakdownCall
  \/ PrimitiveCall
  \/ ValidateNumericCall
  \/ ValidateUsageCall
  \/ ValidateRealTimeCall
  \/ SanitizeTextCall
  \/ ParseCall
  \/ RoundCall
  \/ TieredCall
  \/ ValidateGivenBreakdownCall
  \/ BatchCall
  \/ CompareCall
  \/ SuggestionsCall
  \/ ProjectedCall
  \/ BreakEvenCall
  \/ FormatCurrencyCall
  \/ FormatLargeNumberCall
  \/ SanitizeValidatedCall
  \/ Return

Spec == Init /\ [][Next]_vars

(***************************************************************************)
(* Properties.  The expected values are stated from the unit conventions   *)
(* and the bound tables, not through the functions they are checked on.    *)
(***************************************************************************)
\* for every cost of the breakdown: the usage field priced, the rate applied
\* and the unit convention (lines 142-165)
CostFields ==
  [ runtimeCpuCost |->
      [usage |-> "runtimeCpuHours", rate |-> "runtimeCpuRate",
       kind |-> "amount"],
    runtimeMemoryCost |->
      [usage |-> "runtimeMemoryGBHours", rate |-> "runtimeMemoryRate",
       kind |-> "amount"],
    browserToolCpuCost |->
      [usage |-> "browserToolCpuHours", rate |-> "browserToolCpuRate",
       kind |-> "amount"],
    browserToolMemoryCost |->
      [usage |-> "browserToolMemoryGBHours", rate |-> "browserToolMemoryRate",
       kind |-> "amount"],
    codeInterpreterCpuCost |->
      [usage |-> "codeInterpreterCpuHours", rate |-> "codeInterpreterCpuRate",
       kind |-> "amount"],
    codeInterpreterMemoryCost |->
      [usage |-> "codeInterpreterMemoryGBHours",
       rate |-> "codeInterpreterMemoryRate", kind |-> "amount"],
    gatewayApiInvocationsCost |->
      [usage |-> "gatewayApiInvocations", rate |-> "gatewayApiInvocationRate",
       kind |-> "per1000"],
    gatewaySearchApiCost |->
      [usage |-> "gatewaySearchApiInvocations", rate |-> "gatewaySearchApiRate",
       kind |-> "per1000"],
    gatewayToolIndexingCost |->
      [usage |-> "gatewayToolIndexing", rate |-> "gatewayToolIndexingRate",
       kind |-> "per100"],
    identityTokenRequestsCost |->
      [usage |-> "identityTokenRequests", rate |-> "identityTokenRequestRate",
       kind |-> "per1000"],
    memoryShortTermEventsCost |->
      [usage |-> "memoryShortTermEvents", rate |-> "memoryShortTermEventRate",
       kind |-> "per1000"],
    memoryLongTermStorageBuiltInCost |->
      [usage |-> "memoryLongTermStorageBuiltIn",
       rate |-> "memoryLongTermStorageBuiltInRate", kind |-> "per1000"],
    memoryLongTermStorageCustomCost |->
      [usage |-> "memoryLongTermStorageCustom",
       rate |-> "memoryLongTermStorageCustomRate", kind |-> "per1000"],
    memoryLongTermRetrievalsCost |->
      [usage |-> "memoryLongTermRetrievals",
       rate |-> "memoryLongTermRetrievalRate", kind |-> "per1000"] ]

\* the same for the five-field variant (lines 509-513)
CostFields5 ==
  [ agentInvocationsCost |->
      [usage |-> "agentInvocations", rate |-> "agentInvocationRate",
       kind |-> "per1000"],
    knowledgeBaseQueriesCost |->
      [usage |-> "knowledgeBaseQueries", rate |-> "knowledgeBaseQueryRate",
       kind |-> "per1000"],
    actionGroupExecutionsCost |->
      [usage |-> "actionGroupExecutions", rate |-> "actionGroupExecutionRate",
       kind |-> "per1000"],
    storageCost |->
      [usage |-> "storageGB", rate |-> "storageRatePerGB", kind |-> "amount"],
    dataIngestionCost |->
      [usage |-> "dataIngestionGB", rate |-> "dataIngestionRatePerGB",
       kind |-> "amount"] ]

\* the power of ten a quantity of this kind is divided by
UnitExponent(kind) == IF kind = "per1000" THEN 3
                      ELSE IF kind = "per100" THEN 2 ELSE 0

\* quantity * rate / 10^UnitExponent, for a finite quantity and rate
ExpectedCost(kind, q, rate) == NumDivPow10(NumMul(q, rate), UnitExponent(kind))

\* m is the multiple of 10^-p nearest to x, a tie going to the larger one
IsRounding(x, m, p) ==
  /\ IsFiniteNum(x) /\ IsFiniteNum(m)
  /\ IsInt(NumMulPow10(m, p))
  /\ LET d == NumSub(NumMulPow10(m, p), NumMulPow10(x, p))
     IN  NumCmp(d, Half) <= 0 /\ NumCmp(NegOf(Half), d) < 0

RECURSIVE SumOver(_, _)
SumOver(f, keys) ==
  IF keys = {} THEN Zero
  ELSE LET k == CHOOSE j \in keys : TRUE
       IN  NumAdd(f[k], SumOver(f, keys \ {k}))

\* the rates in force for one call: the custom rate where one is passed,
\* the rate of the shipped table elsewhere
EffectiveRates(customRates) ==
  [k \in DOMAIN BEDROCK_AGENTCORE_PRICING |->
     IF k \in DOMAIN customRates THEN customRates[k]
     ELSE BEDROCK_AGENTCORE_PRICING[k]]

\* the bound sanitizeUsageParameters applies to a field (lines 16-23, 56-70)
UsageLimit(key) ==
  IF key \in {"runtimeCpuHours", "browserToolCpuHours",
              "codeInterpreterCpuHours"} THEN N(100000)
  ELSE IF key \in {"runtimeMemoryGBHours", "browserToolMemoryGBHours",
                   "codeInterpreterMemoryGBHours"} THEN N(1000000)
  ELSE IF key = "gatewayToolIndexing" THEN N(100000)
  ELSE N(1000000000)

\* a usage record whose every field is a finite number within its bound
ValidUsage(usage) ==
  /\ DOMAIN usage = UsageKeys
  /\ \A k \in UsageKeys :
       /\ IsFiniteNum(usage[k])
       /\ ~usage[k].neg
       /\ NumCmp(usage[k], UsageLimit(k)) <= 0

\* the call at hand is calculateCostBreakdown on a valid record, default rates
CalculatedWithDefaults ==
  /\ call.fn = "calculateCostBreakdown"
  /\ call.arg.customRates = NoArgs
  /\ ValidUsage(call.arg.usage)

\* the unrounded cost of every field of the call at hand, default rates
ExpectedCosts ==
  [f \in DOMAIN CostFields |->
     ExpectedCost(CostFields[f].kind, call.arg.usage[CostFields[f].usage],
                  BEDROCK_AGENTCORE_PRICING[CostFields[f].rate])]

\* C1 as stated: for a valid usage record and the default rates,
\* totalMonthlyCost is the 4-decimal rounding of the sum of the returned
\* (rounded) per-field costs.
C1_TotalOfRoundedCosts ==
  CalculatedWithDefaults =>
    IsRounding(SumOver(call.ret, DOMAIN CostFields),
               call.ret.totalMonthlyCost, 4)

\* C1 amended: for a valid usage record and the default rates,
\* totalMonthlyCost is the 4-decimal rounding of the sum of the unrounded
\* per-field costs.
C1_TotalOfUnroundedCosts ==
  CalculatedWithDefaults =>
    IsRounding(SumOver(ExpectedCosts, DOMAIN CostFields),
               call.ret.totalMonthlyCost, 4)

\* 9 gateway invocations and 1 search invocation: every returned cost is 0
\* and the total is 0.0001
C1_Witness ==
  /\ CalculatedWithDefaults
  /\ call.arg.usage.gatewayApiInvocations = N(9)
  /\ call.arg.usage.gatewaySearchApiInvocations = N(1)
  /\ \A f \in DOMAIN CostFields : call.ret[f] = Zero
  /\ call.ret.totalMonthlyCost = Dec(1, 4)

ExampleUsage5 ==
  [agentInvocations |-> N(10000), knowledgeBaseQueries |-> N(5000),
   actionGroupExecutions |-> N(2000), storageGB |-> N(10),
   dataIngestionGB |-> N(5)]

ExampleRates5 ==
  [agentInvocationRate |-> Dec(25, 5), knowledgeBaseQueryRate |-> Dec(40, 5),
   actionGroupExecutionRate |-> Dec(35, 5), storageRatePerGB |-> Dec(10, 2),
   dataIngestionRatePerGB |-> Dec(20, 2)]

ExampleBreakdown5 ==
  [agentInvocationsCost |-> Dec(25, 4), knowledgeBaseQueriesCost |-> Dec(2, 3),
   actionGroupExecutionsCost |-> Dec(7, 4), storageCost |-> N(1),
   dataIngestionCost |-> N(1), totalMonthlyCost |-> Dec(20052, 4)]

\* C2: every cost of a breakdown is the 4-decimal rounding of its own usage
\* field priced at its own rate: amount * rate for hour and GB fields,
\* (count / 100) * rate for gatewayToolIndexing, (count / 1000) * rate for
\* the other counters; the five-field example gives the stated breakdown.
C2_UnitConventions ==
  /\ call.fn = "calculateCostBreakdown" =>
       \A f \in DOMAIN CostFields :
         LET q    == call.arg.usage[CostFields[f].usage]
             rate == EffectiveRates(call.arg.customRates)[CostFields[f].rate]
         IN  (IsFiniteNum(q) /\ ~q.neg) =>
               IsRounding(ExpectedCost(CostFields[f].kind, q, rate),
                          call.ret[f], 4)
  /\ call.fn = "calculateCostBreakdown5" =>
       /\ \A f \in DOMAIN CostFields5 :
            LET q    == call.arg.usage[CostFields5[f].usage]
                rate == call.arg.customRates[CostFields5[f].rate]
            IN  (IsFiniteNum(q) /\ ~q.neg) =>
                  IsRounding(ExpectedCost(CostFields5[f].kind, q, rate),
                             call.ret[f], 4)
       /\ (call.arg.usage = ExampleUsage5 /\ call.arg.customRates = ExampleRates5)
            => call.ret = ExampleBreakdown5

\* a breakdown with one cost of each kind: 123.45 hours at 0.0895, 200 tools
\* at 0.02 per 100, 10000 token requests at 0.010 per 1000
C2_Witness ==
  /\ call.fn = "calculateCostBreakdown"
  /\ call.arg.customRates = NoArgs
  /\ call.arg.usage.runtimeCpuHours = Dec(12345, 2)
  /\ call.arg.usage.gatewayToolIndexing = N(200)
  /\ call.arg.usage.identityTokenRequests = N(10000)
  /\ call.ret.runtimeCpuCost = Dec(110488, 4)
  /\ call.ret.gatewayToolIndexingCost = Dec(4, 2)
  /\ call.ret.identityTokenRequestsCost = Dec(1, 1)

\* C3: whatever the input, sanitizeUsageParameters returns every known
\* field as a finite number between 0 and the field's bound: a finite value
\* in range is kept, every other value (negative, above the bound, absent,
\* NaN, infinite, not a number) becomes 0.
C3_SanitizedWithinBounds ==
  call.fn = "sanitizeUsageParameters" =>
    /\ DOMAIN call.ret = UsageKeys
    /\ \A k \in UsageKeys :
         LET raw == IF k \in DOMAIN call.arg THEN call.arg[k] ELSE Undefined
             v   == call.ret[k]
         IN  /\ IsFiniteNum(v)
             /\ ~v.neg
             /\ NumCmp(v, UsageLimit(k)) <= 0
             /\ IF IsFiniteNum(raw) /\ ~raw.neg
                   /\ NumCmp(raw, UsageLimit(k)) <= 0
                THEN v = raw ELSE v = Zero

\* one record with a value above its bound, a value in range and an
\* absent field
C3_Witness ==
  /\ call.fn = "sanitizeUsageParameters"
  /\ "runtimeCpuHours" \in DOMAIN call.arg
  /\ "runtimeMemoryGBHours" \in DOMAIN call.arg
  /\ call.arg.runtimeCpuHours = N(100001)
  /\ call.arg.gatewaySearchApiInvocations = Undefined
  /\ call.ret.runtimeCpuHours = Zero
  /\ call.ret.gatewaySearchApiInvocations = Zero
  /\ call.ret.runtimeMemoryGBHours = Dec(5005, 1)

\* C4: sanitizeUsageParameters applied to its own result returns that result
\* field by field.
C4_SanitizeIdempotent ==
  (call.fn = "sanitizeUsageParameters" /\ call.ghost.chained) =>
    /\ DOMAIN call.ret = DOMAIN call.arg
    /\ \A k \in DOMAIN call.ret : call.ret[k] = call.arg[k]

\* a second application, after a first one that changed the record and left
\* the two gateway counters different
C4_Witness ==
  /\ call.fn = "sanitizeUsageParameters"
  /\ call.ghost.chained
  /\ \E k \in DOMAIN call.ghost.original \cap UsageKeys :
       call.ghost.original[k] # call.arg[k]
  /\ call.arg.gatewayApiInvocations # call.arg.gatewaySearchApiInvocations
  /\ call.ret = call.arg

\* C5: the bound sanitizeUsageParameters applies to a field is the max of
\* that field in VALIDATION_CONSTRAINTS: a finite positive value is kept by
\* sanitizeUsageParameters exactly when it does not exceed that max.
C5_SameBoundAsValidation ==
  call.fn = "sanitizeUsageParameters" =>
    \A k \in UsageKeys \cap DOMAIN call.arg :
      (IsFiniteNum(call.arg[k]) /\ ~call.arg[k].neg /\ call.arg[k] # Zero) =>
        ( call.ret[k] = call.arg[k]
          <=> NumCmp(call.arg[k], VALIDATION_CONSTRAINTS[k].max) <= 0 )

\* C6: the breakdown of a sanitized record at the default rates has every
\* field finite and >= 0, and validateCostBreakdown finds it valid.
C6_SanitizedBreakdownValid ==
  /\ (call.fn = "calculateCostBreakdown" /\ call.ghost.sanitized
        /\ call.arg.customRates = NoArgs) =>
       \A f \in DOMAIN call.ret :
         IsFiniteNum(call.ret[f]) /\ ~call.ret[f].neg
  /\ (call.fn = "validateCostBreakdown" /\ call.ghost.sanitized
        /\ call.ghost.customRates = NoArgs) =>
       /\ call.ret.isValid
       /\ \A f \in DOMAIN call.arg :
            IsFiniteNum(call.arg[f]) /\ ~call.arg[f].neg

\* validateCostBreakdown on the non-zero breakdown of a sanitized record
C6_Witness ==
  /\ call.fn = "validateCostBreakdown"
  /\ call.ghost.sanitized
  /\ call.ghost.customRates = NoArgs
  /\ call.arg.totalMonthlyCost # Zero
  /\ call.ret.isValid

\* C7: a breakdown depends on the arguments of its own call only: it is
\* computed at the custom rate where one is passed and at the shipped default
\* rate elsewhere, whatever calls came before, and the default table keeps
\* its shipped value.
C7_OwnArgumentsOnly ==
  /\ pricing = BEDROCK_AGENTCORE_PRICING
  /\ call.fn = "calculateCostBreakdown" =>
       call.ret = calculateCostBreakdown(call.arg.usage, NoArgs,
                    EffectiveRates(call.arg.customRates))

\* a call without custom rates, made after a call with custom rates, prices
\* 200,000,000 invocations at the default 0.005 per 1000
C7_Witness ==
  /\ call.fn = "calculateCostBreakdown"
  /\ overridden
  /\ call.arg.customRates = NoArgs
  /\ call.arg.usage.gatewayApiInvocations = N(200000000)
  /\ call.ret.gatewayApiInvocationsCost = N(1000)

\* the unit convention of a primitive cost function
PrimitiveKind(fn) ==
  IF fn \in {"calculateApiInvocationsCost", "calculateAgentInvocationsCost",
             "calculateKnowledgeBaseQueriesCost",
             "calculateActionGroupExecutionsCost"} THEN "per1000"
  ELSE IF fn = "calculateToolIndexingCost" THEN "per100" ELSE "amount"

\* C8: a primitive cost function returns 0 for a negative quantity;
\* otherwise its result c satisfies c * 1000 = count * rate for the
\* per-1000 functions, c = amount * rate for the CPU, memory, storage and
\* ingestion functions, and c * 100 = count * rate for
\* calculateToolIndexingCost.
C8_PrimitiveCosts ==
  call.fn \in PrimitiveNames =>
    LET q    == call.arg.q
        rate == call.arg.rate
        c    == call.ret
    IN  IF JsLt(q, N(0)) THEN c = Zero
        ELSE IF IsFiniteNum(q)
        THEN /\ IsFiniteNum(c)
             /\ NumMulPow10(c, UnitExponent(PrimitiveKind(call.fn)))
                  = NumMul(q, rate)
        ELSE c = JsMul(q, rate)

\* 5 tools at 0.02 per 100 cost 0.001
C8_Witness ==
  /\ call.fn = "calculateToolIndexingCost"
  /\ call.arg.q = N(5)
  /\ call.arg.rate = Dec(2, 2)
  /\ call.ret = Dec(1, 3)

\* the error code of a validateNumericInput result, "VALID" for a valid one
Outcome(r) == IF r.isValid THEN "VALID" ELSE r.errorMessage[1]

\* the result r reports the first failing check for an input that is empty
\* or not, required or not, parses to p (Null when unparseable) and has the
\* constraints c
ReportsFirstFailure(r, empty, isRequired, p, c) ==
  /\ r.isValid <=> DOMAIN r = {"isValid", "sanitizedValue"}
  /\ ~r.isValid <=> DOMAIN r = {"isValid", "errorMessage"}
  /\ Outcome(r) = "REQUIRED" <=> (empty /\ isRequired)
  /\ (empty /\ ~isRequired) => (r.isValid /\ r.sanitizedValue = Zero)
  /\ Outcome(r) = "NOT_A_NUMBER" <=> (~empty /\ p = Null)
  /\ (~empty /\ p # Null) =>
       /\ Outcome(r) = "NEGATIVE_NUMBER" <=> p.neg
       /\ Outcome(r) = "TOO_SMALL" <=> (~p.neg /\ NumCmp(p, c.min) < 0)
       /\ Outcome(r) = "TOO_LARGE" <=>
            (~p.neg /\ NumCmp(p, c.min) >= 0 /\ NumCmp(p, c.max) > 0)
       /\ Outcome(r) = "TOO_LARGE" => r.errorMessage[2] = c.max
       /\ Outcome(r) = "INVALID_DECIMAL_PLACES" <=>
            /\ ~p.neg /\ NumCmp(p, c.min) >= 0 /\ NumCmp(p, c.max) <= 0
            /\ countDecimalPlaces(p) > c.maxDecimalPlaces
       /\ r.isValid => r.sanitizedValue = p
  /\ (empty \/ p = Null) =>
       Outcome(r) \in {"VALID", "REQUIRED", "NOT_A_NUMBER"}

\* C9: validateNumericInput reports the first failing check of: empty and
\* required, unparseable, negative, below min, above max, too many decimal
\* places; an empty optional input is valid with value 0 and any other
\* passing input is valid with the parsed value; a valid result carries a
\* sanitizedValue and no errorMessage, an invalid one the reverse.
C9_FirstFailingCheck ==
  call.fn = "validateNumericInput" =>
    ReportsFirstFailure(call.ret, TrimIsEmpty(call.arg.input),
                        call.arg.isRequired,
                        parseNumericInput(call.arg.input),
                        VALIDATION_CONSTRAINTS[call.arg.constraintKey])

\* "100000.555" for runtimeCpuHours is above the max and has too many
\* decimal places: TOO_LARGE is reported
C9_Witness ==
  /\ call.fn = "validateNumericInput"
  /\ call.arg.input = <<"1", "0", "0", "0", "0", "0", ".", "5", "5", "5">>
  /\ call.arg.constraintKey = "runtimeCpuHours"
  /\ ~call.ret.isValid
  /\ call.ret.errorMessage = <<"TOO_LARGE", N(100000)>>

\* C10: validateUsageParameters puts every key of the constraint table in
\* exactly one of errors and sanitizedValues, each decided by that field's
\* own input; isValid holds exactly when errors is empty; a missing or
\* empty field is valid with value 0.
C10_EveryFieldChecked ==
  call.fn = "validateUsageParameters" =>
    LET r      == call.ret
        params == call.arg
        keys   == DOMAIN VALIDATION_CONSTRAINTS
    IN  /\ DOMAIN r.errors \cap DOMAIN r.sanitizedValues = {}
        /\ DOMAIN r.errors \cup DOMAIN r.sanitizedValues = keys
        /\ r.isValid <=> DOMAIN r.errors = {}
        /\ \A k \in keys :
             IF k \notin DOMAIN params \/ TrimIsEmpty(params[k])
             THEN k \in DOMAIN r.sanitizedValues
                  /\ r.sanitizedValues[k] = Zero
             ELSE LET one == validateNumericInput(params[k], k, FALSE)
                  IN  IF one.isValid
                      THEN k \in DOMAIN r.sanitizedValues
                           /\ r.sanitizedValues[k] = one.sanitizedValue
                      ELSE k \in DOMAIN r.errors
                           /\ r.errors[k] = one.errorMessage

\* two fields fail, a later one passes and a missing one is 0
C10_Witness ==
  /\ call.fn = "validateUsageParameters"
  /\ ~call.ret.isValid
  /\ DOMAIN call.ret.errors = {"runtimeCpuHours", "gatewayApiInvocations"}
  /\ call.ret.errors.runtimeCpuHours = <<"NOT_A_NUMBER">>
  /\ call.ret.errors.gatewayApiInvocations = <<"NEGATIVE_NUMBER">>
  /\ call.ret.sanitizedValues.gatewayToolIndexing = N(7)
  /\ call.ret.sanitizedValues.memoryLongTermRetrievals = Zero

\* the real-time result r carries the members of the validation result v,
\* absent ones as null, and shows an error exactly for an invalid input
\* that is not empty
AgreesWithValidation(r, v, empty, isRequired) ==
  /\ r.isValid = v.isValid
  /\ r.errorMessage = (IF v.isValid THEN NoMessage ELSE v.errorMessage)
  /\ r.sanitizedValue = (IF v.isValid THEN v.sanitizedValue ELSE Null)
  /\ r.showError <=> (~r.isValid /\ ~empty)
  /\ (empty /\ isRequired) => (~r.isValid /\ ~r.showError)

\* C11: validateInputRealTime returns the isValid, error message and
\* sanitized value of validateNumericInput for the same arguments (absent
\* ones as null); showError is true exactly when the result is invalid and
\* the input is not empty after trimming; an empty required field is
\* invalid with showError false.
C11_RealTimeAgrees ==
  call.fn = "validateInputRealTime" =>
    AgreesWithValidation(call.ret,
                         validateNumericInput(call.arg.input,
                                              call.arg.constraintKey,
                                              call.arg.isRequired),
                         TrimIsEmpty(call.arg.input), call.arg.isRequired)

\* a required field holding one space: invalid, REQUIRED, no error shown
C11_Witness ==
  /\ call.fn = "validateInputRealTime"
  /\ call.arg.input = <<" ">>
  /\ call.arg.isRequired
  /\ ~call.ret.isValid
  /\ call.ret.errorMessage = <<"REQUIRED">>
  /\ call.ret.sanitizedValue = Null
  /\ ~call.ret.showError

\* C12: the output of sanitizeNumericInput holds a minus sign only as its
\* first character, and only if '-' is the first character of the input.
C12_MinusOnlyIfFirstInInput ==
  call.fn = "sanitizeNumericInput" =>
    /\ \A i \in 2..Len(call.ret) : call.ret[i] # "-"
    /\ (call.ret # <<>> /\ call.ret[1] = "-") =>
         (call.arg # <<>> /\ call.arg[1] = "-")

\* the digits of a text, in order
DigitsOf(s) == SelectSeq(s, LAMBDA ch : ch \in Digits)

\* the part of a text before its first '.', the whole text when it has none
BeforeFirstDot(s) ==
  IF \E i \in 1..Len(s) : s[i] = "."
  THEN SubSeq(s, 1, (CHOOSE i \in 1..Len(s) :
                       s[i] = "." /\ \A j \in 1..(i - 1) : s[j] # ".") - 1)
  ELSE s

\* out is a well-formed numeric text made of the digits and the first '.'
\* of the text in
WellFormedFrom(out, in) ==
  /\ \A i \in 1..Len(out) : out[i] \in Digits \cup {".", "-"}
  /\ Cardinality({i \in 1..Len(out) : out[i] = "."}) <= 1
  /\ \A i \in 2..Len(out) : out[i] # "-"
  /\ DigitsOf(out) = DigitsOf(in)
  /\ (\E i \in 1..Len(out) : out[i] = ".") <=> (\E i \in 1..Len(in) : in[i] = ".")
  /\ DigitsOf(BeforeFirstDot(out)) = DigitsOf(BeforeFirstDot(in))

\* C13: the output of sanitizeNumericInput holds only digits, at most one
\* '.', and at most one '-' which is its first character; its '.' stands
\* where the first '.' of the input stood among the digits, and its digits
\* are the digits of the input in the same order.
C13_WellFormedOutput ==
  call.fn = "sanitizeNumericInput" => WellFormedFrom(call.ret, call.arg)

\* ".5." keeps its first point only
C13_Witness ==
  /\ call.fn = "sanitizeNumericInput"
  /\ call.arg = <<".", "5", ".">>
  /\ call.ret = <<".", "5">>

\* the result of parseNumericInput for a text whose sanitized form is given
NullOrFinite(r, sanitized) ==
  /\ r.t \in {"null", "num"}
  /\ r = Null <=> DigitsOf(sanitized) = <<>>

\* C14: parseNumericInput returns null or a finite number, never NaN or an
\* infinity: null exactly when the sanitized text holds no digit.
C14_NullOrFinite ==
  call.fn = "parseNumericInput" =>
    NullOrFinite(call.ret, sanitizeNumericInput(call.arg))

\* "-." passes the three literal rejections, parses to NaN and gives null
C14_Witness ==
  /\ call.fn = "parseNumericInput"
  /\ call.arg = <<"-", ".">>
  /\ call.ret = Null

\* the number of decimal places of a finite value: the least d with
\* x * 10^d an integer
RECURSIVE PlacesOf(_)
PlacesOf(x) == IF IsInt(x) THEN 0 ELSE 1 + PlacesOf(NumMulPow10(x, 1))

\* the result r decides the decimal-place check by the places of the
\* parsed value p, for a p that passed the range checks of the constraints c
DecidedByPlaces(r, p, c) ==
  (p # Null /\ ~p.neg /\ NumCmp(p, c.min) >= 0 /\ NumCmp(p, c.max) <= 0) =>
    IF PlacesOf(p) > c.maxDecimalPlaces
    THEN Outcome(r) = "INVALID_DECIMAL_PLACES"
    ELSE r.isValid /\ r.sanitizedValue = p

\* C15: validateNumericInput rejects a value in range with
\* INVALID_DECIMAL_PLACES exactly when the parsed number has more decimal
\* places than the field's maxDecimalPlaces (an integral value has 0
\* places, trailing zeros of the text do not count), and accepts it
\* otherwise.
C15_DecimalPlacesOfValue ==
  (call.fn = "validateNumericInput" /\ ~TrimIsEmpty(call.arg.input)) =>
    DecidedByPlaces(call.ret, parseNumericInput(call.arg.input),
                    VALIDATION_CONSTRAINTS[call.arg.constraintKey])

\* m is the multiple of 10^-p nearest to x, a tie going away from zero
IsRoundingAwayFromZero(x, m, p) ==
  /\ IsFiniteNum(m)
  /\ IsInt(NumMulPow10(m, p))
  /\ LET d == NumSub(NumMulPow10(m, p), NumMulPow10(x, p))
     IN  /\ NumCmp(d, Half) <= 0
         /\ NumCmp(NegOf(Half), d) <= 0
         /\ (d = Half => ~x.neg)
         /\ (d = NegOf(Half) => x.neg)

\* C16: roundToPrecision(value, places) is the multiple of 10^-places
\* nearest to value, an exact half going away from zero for negative as
\* well as positive values.
C16_HalfAwayFromZero ==
  (call.fn = "roundToPrecision" /\ IsFiniteNum(call.arg.value)) =>
    IsRoundingAwayFromZero(call.arg.value, call.ret, call.arg.precision)

\* C17: calculateTieredCost returns 0 when usage <= 0 or the tier list is
\* empty, and on a single tier with threshold 0 and rate R it returns
\* calculateApiInvocationsCost(usage, R) for every usage >= 0.
C17_FlatTier ==
  call.fn = "calculateTieredCost" =>
    LET usage == call.arg.usage
        tiers == call.arg.tiers
    IN  /\ (JsLe(usage, Zero) \/ tiers = <<>>) => call.ret = Zero
        /\ (Len(tiers) = 1 /\ tiers[1].threshold = Zero /\ JsLe(Zero, usage))
             => call.ret = calculateApiInvocationsCost(usage, tiers[1].rate)

\* 5000 units on the flat tier at 0.001 per 1000 cost 0.005
C17_Witness ==
  /\ call.fn = "calculateTieredCost"
  /\ call.arg.usage = N(5000)
  /\ call.arg.tiers = <<Tier(0, Dec(1, 3))>>
  /\ call.ret = Dec(5, 3)

StrictlyIncreasing(tiers) ==
  \A i \in 1..(Len(tiers) - 1) :
    NumCmp(tiers[i].threshold, tiers[i + 1].threshold) < 0

\* the units billed at tier i, 0 for a tier the loop did not reach
Billed(tierUsages, i) == IF i <= Len(tierUsages) THEN tierUsages[i] ELSE Zero

RECURSIVE BilledBefore(_, _)
BilledBefore(tierUsages, i) ==
  IF i <= 1 THEN Zero
  ELSE JsAdd(BilledBefore(tierUsages, i - 1), Billed(tierUsages, i - 1))

RECURSIVE CostOfBilled(_, _, _)
CostOfBilled(tierUsages, tiers, i) ==
  IF i = 0 THEN Zero
  ELSE JsAdd(CostOfBilled(tierUsages, tiers, i - 1),
             JsMul(JsDivBy(Billed(tierUsages, i), 1000), tiers[i].rate))

\* the smaller of two values that are not NaN
Smaller(a, b) == IF JsLe(a, b) THEN a ELSE b

BillsEveryUnitOnce(usage, tiers, tierUsages, ret) ==
  /\ \A i \in 1..Len(tiers) :
       Billed(tierUsages, i) =
         IF i < Len(tiers)
         THEN Smaller(JsSub(usage, BilledBefore(tierUsages, i)),
                      NumSub(tiers[i + 1].threshold, tiers[i].threshold))
         ELSE JsSub(usage, BilledBefore(tierUsages, i))
  /\ BilledBefore(tierUsages, Len(tiers) + 1) = usage
  /\ ret = CostOfBilled(tierUsages, tiers, Len(tiers))

\* C18: for usage > 0 and strictly increasing thresholds, tier i is
\* billed min(remaining usage, threshold[i+1] - threshold[i]) units, the
\* last tier all that remains, the billed amounts sum to usage, and the
\* result is the sum over the tiers of (tierUsage / 1000) * rate.
C18_EveryUnitOnce ==
  (/\ call.fn = "calculateTieredCost"
   /\ JsGt(call.arg.usage, Zero)
   /\ call.arg.tiers # <<>>
   /\ StrictlyIncreasing(call.arg.tiers)) =>
    BillsEveryUnitOnce(call.arg.usage, call.arg.tiers, call.ghost, call.ret)

\* 6000 units over the tiers 0, 1000, 5000 are billed 1000, 4000 and 1000
\* and cost 0.0048
C18_Witness ==
  /\ call.fn = "calculateTieredCost"
  /\ call.arg.usage = N(6000)
  /\ Len(call.arg.tiers) = 3
  /\ call.ghost = <<N(1000), N(4000), N(1000)>>
  /\ call.ret = Dec(48, 4)

\* the fields of a breakdown that are negative, NaN or infinite
BadFields(b) == {k \in DOMAIN b : b[k].t # "num" \/ b[k].neg}

Judged(b, r, bad) ==
  /\ r.isValid = (bad = {})
  /\ \A k \in bad : \E w \in r.warnings :
       w[1] \in {"negative", "invalid"} /\ w[2] = k
  /\ bad = {} =>
       r.warnings = IF NumCmp(b.totalMonthlyCost, N(100000)) > 0
                    THEN {<<"high", "totalMonthlyCost">>} ELSE {}

\* C19: validateCostBreakdown returns isValid = FALSE exactly when some
\* field of the breakdown is negative, NaN or infinite, with a warning
\* naming each such field; with every field finite and non-negative it
\* returns isValid = TRUE, with the single high-total warning when the
\* total exceeds 100,000 and with no warning otherwise.
C19_InvalidIffBadField ==
  call.fn = "validateCostBreakdown" =>
    Judged(call.arg, call.ret, BadFields(call.arg))

\* a total above 100,000 with every field finite and non-negative is
\* valid and carries the warning
C19_Witness ==
  /\ call.fn = "validateCostBreakdown"
  /\ BadFields(call.arg) = {}
  /\ call.ret.isValid
  /\ call.ret.warnings = {<<"high", "totalMonthlyCost">>}

\* a negative field together with a total above 100,000: invalid, with
\* both warnings
InvalidAndHighBreakdown ==
  /\ call.fn = "validateCostBreakdown"
  /\ call.arg.totalMonthlyCost = N(150000)
  /\ call.arg.storageCost = NegOf(N(1))
  /\ ~call.ret.isValid
  /\ call.ret.warnings = {<<"high", "totalMonthlyCost">>,
                          <<"negative", "storageCost">>}

AnalysisNames ==
  {"calculateBatchCosts", "compareScenarios",
   "generateOptimizationSuggestions", "calculateProjectedCosts",
   "calculateBreakEvenAnalysis"}

\* C20: in each derived analysis every usage record handed to
\* calculateCostBreakdown has all its fields within the sanitization
\* bounds: finite, >= 0 and at most the field's limit.
C20_OnlySanitizedReachesEngine ==
  call.fn \in AnalysisNames =>
    \A i \in DOMAIN call.ghost.reached : ValidUsage(call.ghost.reached[i])

\* the same for the analyses that call sanitizeUsageParameters first
SanitizingAnalysesGated ==
  call.fn \in {"calculateBatchCosts", "compareScenarios",
               "calculateProjectedCosts"} =>
    \A i \in DOMAIN call.ghost.reached : ValidUsage(call.ghost.reached[i])

InSearchRange(b) == 0 <= b.low /\ b.low <= b.high /\ b.high <= 10000000

\* C21: each search of calculateBreakEvenAnalysis ends within 50
\* iterations, keeps 0 <= low <= high <= 10,000,000 at every iteration and
\* at its end, and returns an integer in 0..10,000,000.
C21_SearchTerminatesInRange ==
  call.fn = "calculateBreakEvenAnalysis" =>
    /\ \A s \in 1..2 :
         /\ Len(call.ghost.searches[s]) <= 50 + 1
         /\ \A i \in DOMAIN call.ghost.searches[s] :
              InSearchRange(call.ghost.searches[s][i])
    /\ call.ret.breakEvenInvocations \in 0..10000000
    /\ call.ret.profitableAt10k \in 0..10000000

\* a search that raised low and lowered high before it ended
C21_Witness ==
  /\ call.fn = "calculateBreakEvenAnalysis"
  /\ \E i \in DOMAIN call.ghost.searches[1] :
       /\ call.ghost.searches[1][i].low > 0
       /\ call.ghost.searches[1][i].high < 10000000
  /\ call.ret.breakEvenInvocations > 0

\* the cost of one invocation under the usage mix of the search: 0.1 CPU
\* hours, 0.5 GB-hours and one gateway API call
MarginalCost ==
  NumAdd(NumAdd(NumMul(Dec(1, 1), pricing.runtimeCpuRate),
                NumMul(Dec(5, 1), pricing.runtimeMemoryRate)),
         NumDivPow10(pricing.gatewayApiInvocationRate, 3))

\* units * revenuePerInvocation - totalMonthlyCost(units) - fixedCosts
ProfitAt(units, revenuePerInvocation, fixedCosts) ==
  NumSub(NumSub(NumMul(N(units), revenuePerInvocation),
                calculateCostBreakdown(BreakEvenUsage(units), NoRates,
                                       pricing).totalMonthlyCost),
         fixedCosts)

WithinTolerance(profit) ==
  NumCmp(profit, Dec(1, 2)) < 0 /\ NumCmp(NegOf(Dec(1, 2)), profit) < 0

RECURSIVE PowerOf(_, _)
PowerOf(b, n) == IF n = 0 THEN N(1) ELSE NumMul(b, PowerOf(b, n - 1))

\* the projection p of month m is numbered m, its usage is the rounded
\* growth of each field, its costs are the breakdown of the sanitized usage
IsMonthOf(p, m, currentUsage, growthRate) ==
  /\ p.month = m
  /\ DOMAIN p.usage = UsageKeys
  /\ \A k \in UsageKeys :
       (IsFiniteNum(currentUsage[k]) /\ IsFiniteNum(growthRate)) =>
         IsRounding(NumMul(currentUsage[k],
                           PowerOf(NumAdd(N(1), growthRate), m - 1)),
                    p.usage[k], 0)
  /\ p.costs = calculateCostBreakdown(sanitizeUsageParameters(p.usage),
                                      NoRates, pricing)

IsProjection(r, currentUsage, growthRate) ==
  /\ DOMAIN r.monthlyProjections = 1..12
  /\ \A m \in 1..12 :
       IsMonthOf(r.monthlyProjections[m], m, currentUsage, growthRate)
  /\ r.totalAnnualCost =
       SumOver([m \in 1..12 |->
                  r.monthlyProjections[m].costs.totalMonthlyCost], 1..12)
  /\ r.averageMonthlyCost = [num |-> r.totalAnnualCost, den |-> N(12)]

\* C23: calculateProjectedCosts returns 12 projections numbered 1..12 in
\* order; in month m every usage field is round(currentField *
\* (1 + growthRate)^(m-1)) and the costs are calculateCostBreakdown of the
\* sanitized usage; totalAnnualCost is the sum of the 12 monthly totals and
\* averageMonthlyCost is totalAnnualCost / 12.
C23_TwelveProjections ==
  call.fn = "calculateProjectedCosts" =>
    IsProjection(call.ret, call.arg.currentUsage, call.arg.growthRate)

\* 10% growth of a record with 5 CPU hours: month 12 has round(5 * 1.1^11)
\* = 14 hours
C23_Witness ==
  /\ call.fn = "calculateProjectedCosts"
  /\ call.arg.growthRate = Dec(1, 1)
  /\ call.arg.currentUsage.runtimeCpuHours = N(5)
  /\ call.ret.monthlyProjections[12].usage.runtimeCpuHours = N(14)
  /\ call.ret.totalAnnualCost # Zero

NeverDecreases(monthlyProjections) ==
  \A m \in 1..11 :
    JsLe(monthlyProjections[m].costs.totalMonthlyCost,
         monthlyProjections[m + 1].costs.totalMonthlyCost)

CostsOfReportedUsage(monthlyProjections) ==
  \A m \in 1..12 :
    monthlyProjections[m].costs =
      calculateCostBreakdown(monthlyProjections[m].usage, NoRates, pricing)

\* C30: for a current usage record within the sanitization bounds and a
\* growth rate >= 0, the projected totalMonthlyCost never decreases from
\* one month to the next, and the costs of each month are
\* calculateCostBreakdown of the usage reported for that month.
C30_ProjectionMonotone ==
  (/\ call.fn = "calculateProjectedCosts"
   /\ ValidUsage(call.arg.currentUsage)
   /\ IsFiniteNum(call.arg.growthRate)
   /\ ~call.arg.growthRate.neg) =>
    /\ NeverDecreases(call.ret.monthlyProjections)
    /\ CostsOfReportedUsage(call.ret.monthlyProjections)

\* the quotient q is (diff / total) * 100, stated without division
IsPercentageOf(q, diff, total) ==
  /\ IsFiniteNum(q.num) /\ IsFiniteNum(q.den) /\ q.den # Zero
  /\ NumMul(q.num, total) = NumMul(NumMul(diff, N(100)), q.den)

ComparesTotals(r, baselineTotal, comparisonTotal) ==
  /\ r.differences.totalMonthlyCost = NumSub(comparisonTotal, baselineTotal)
  /\ IF NumCmp(baselineTotal, Zero) > 0
     THEN IsPercentageOf(r.percentageChanges.totalPercentageChange,
                         NumSub(comparisonTotal, baselineTotal),
                         baselineTotal)
     ELSE /\ r.percentageChanges.totalPercentageChange.num = Zero
          /\ r.percentageChanges.totalPercentageChange.den # Zero
  /\ r.summary.isMoreExpensive = (NumCmp(comparisonTotal, baselineTotal) > 0)

\* C24: compareScenarios reports totalMonthlyCostDiff = comparison total -
\* baseline total of the sanitized breakdowns; totalPercentageChange is
\* (diff / baseline total) * 100 when the baseline total is > 0 and 0
\* otherwise, always a finite number; isMoreExpensive is TRUE exactly when
\* the difference is > 0.
C24_TotalsCompared ==
  call.fn = "compareScenarios" =>
    ComparesTotals(call.ret,
      calculateCostBreakdown(sanitizeUsageParameters(call.arg.baseline),
                             NoRates, pricing).totalMonthlyCost,
      calculateCostBreakdown(sanitizeUsageParameters(call.arg.comparison),
                             NoRates, pricing).totalMonthlyCost)

\* a comparison that is cheaper than a baseline with a total above 0
C24_Witness ==
  /\ call.fn = "compareScenarios"
  /\ call.ret.baseline.totalMonthlyCost # Zero
  /\ call.ret.differences.totalMonthlyCost.neg
  /\ call.ret.percentageChanges.totalPercentageChange.num.neg
  /\ ~call.ret.summary.isMoreExpensive

\* a baseline with total 0: the percentage is 0
BaselineOfZero ==
  /\ call.fn = "compareScenarios"
  /\ call.ret.baseline.totalMonthlyCost = Zero
  /\ call.ret.comparison.totalMonthlyCost # Zero
  /\ call.ret.percentageChanges.totalPercentageChange.num = Zero

\* the permutations of 1..n
Reorderings(n) ==
  {p \in [1..n -> 1..n] : \A i \in 1..n : \E j \in 1..n : p[j] = i}

Permuted(seq, p) == [i \in DOMAIN seq |-> seq[p[i]]]

OneBreakdownPerScenario(scenarios, result) ==
  /\ DOMAIN result = DOMAIN scenarios
  /\ \A i \in DOMAIN scenarios :
       result[i] = calculateCostBreakdown(
                     sanitizeUsageParameters(scenarios[i]), NoRates, pricing)

\* C25: calculateBatchCosts returns one breakdown per scenario, in input
\* order, result[i] being calculateCostBreakdown(sanitizeUsageParameters(
\* scenarios[i])); permuting the scenarios permutes the result the same
\* way.
C25_BatchIndependent ==
  call.fn = "calculateBatchCosts" =>
    /\ OneBreakdownPerScenario(call.arg, call.ret)
    /\ \A p \in Reorderings(Len(call.arg)) :
         calculateBatchCosts(Permuted(call.arg, p), pricing)
           = Permuted(call.ret, p)

\* a batch of two scenarios with different breakdowns
C25_Witness ==
  /\ call.fn = "calculateBatchCosts"
  /\ Len(call.arg) >= 2
  /\ call.arg[1] # call.arg[2]
  /\ call.ret[1] # call.ret[2]
  /\ call.ret[2].totalMonthlyCost # Zero

\* the checks of generateOptimizationSuggestions in the order of the source
SuggestionOrder ==
  <<"cpu", "memory", "search", "indexing", "identity", "storage",
    "retrievals", "builtIn", "monitoring">>

CpuCostOf(c) ==
  JsAdd(c.runtimeCpuCost, JsAdd(c.browserToolCpuCost, c.codeInterpreterCpuCost))

MemoryCostOf(c) ==
  JsAdd(c.runtimeMemoryCost,
        JsAdd(c.browserToolMemoryCost, c.codeInterpreterMemoryCost))

\* the check called name is true of the usage record u and its breakdown c
CheckHolds(name, u, c) ==
  CASE name = "cpu" -> JsLt(JsAdd(MemoryCostOf(c), MemoryCostOf(c)), CpuCostOf(c))
    [] name = "memory" -> JsLt(JsAdd(CpuCostOf(c), CpuCostOf(c)), MemoryCostOf(c))
    [] name = "search" ->
         JsLt(JsAdd(u.gatewayApiInvocations, u.gatewayApiInvocations),
              u.gatewaySearchApiInvocations)
    [] name = "indexing" -> JsLt(N(1000), u.gatewayToolIndexing)
    [] name = "identity" ->
         JsLt(u.gatewayApiInvocations, u.identityTokenRequests)
    [] name = "storage" ->
         JsLt(JsMul(Dec(3, 1), c.totalMonthlyCost),
              JsAdd(c.memoryLongTermStorageBuiltInCost,
                    c.memoryLongTermStorageCustomCost))
    [] name = "retrievals" ->
         JsLt(JsAdd(u.memoryShortTermEvents, u.memoryShortTermEvents),
              u.memoryLongTermRetrievals)
    [] name = "builtIn" ->
         JsLt(JsMul(N(3), u.memoryLongTermStorageCustom),
              u.memoryLongTermStorageBuiltIn)
    [] name = "monitoring" -> JsLt(N(1000), c.totalMonthlyCost)

SuggestionsWhoseCheckHolds(u, c) ==
  LET Holds(name) == CheckHolds(name, u, c)
  IN  SelectSeq(SuggestionOrder, Holds)

AllZero(u) == \A k \in DOMAIN u : u[k] = Zero

\* C26: generateOptimizationSuggestions returns the subsequence, in the
\* fixed order of the checks, of the suggestions whose check is true of the
\* usage record and its breakdown, each check decided on its own; an
\* all-zero usage record yields the empty list.
C26_FixedOrderSubsequence ==
  call.fn = "generateOptimizationSuggestions" =>
    /\ call.ret = SuggestionsWhoseCheckHolds(call.arg,
                    calculateCostBreakdown(call.arg, NoRates, pricing))
    /\ AllZero(call.arg) => call.ret = <<>>

\* a record with three suggestions, returned in the order of the checks
C26_Witness ==
  /\ call.fn = "generateOptimizationSuggestions"
  /\ call.ret = <<"cpu", "builtIn", "monitoring">>

SuggestsNothingForZero ==
  /\ call.fn = "generateOptimizationSuggestions"
  /\ AllZero(call.arg)
  /\ call.ret = <<>>
\* the number written by a text of digits with at most one '.', the other
\* characters of the text (sign, currency symbol, separators) left out
WrittenNumber(text) == parseFloat(KeepChars(text, Digits \cup {"."}))

CharsOf(text) == {text[i] : i \in 1..Len(text)}

WithCentsWellFormed ==
  (call.fn = "formatCurrency" /\ IsFiniteNum(call.arg.value)
     /\ call.arg.showCents) =>
    LET body  == IF call.arg.value.neg THEN Tail(call.ret) ELSE call.ret
        point == IndexOf(body, ".")
        whole == IF point = -1 THEN Tail(body) ELSE SubSeq(body, 2, point)
    IN  /\ Head(body) = "$"
        /\ (call.arg.precision = 0) = (point = -1)
        /\ point # -1 => Len(body) - (point + 1) = call.arg.precision
        /\ IsRoundingAwayFromZero(
             Norm(FALSE, call.arg.value.mag, call.arg.value.fl),
             WrittenNumber(body), call.arg.precision)
        /\ \A i \in 1..Len(whole) :
             (whole[i] = ",") = ((Len(whole) - i) % 4 = 3)

RECURSIVE NatOfDigits(_, _)
NatOfDigits(ds, acc) ==
  IF ds = <<>> THEN acc ELSE NatOfDigits(Tail(ds), 10 * acc + DigitValue(Head(ds)))

RECURSIVE TimesPow10(_, _)
TimesPow10(x, e) == IF e = 0 THEN x ELSE TimesPow10(NumMulPow10(x, 1), e - 1)

\* the number written by a text in plain or in e+ notation
WrittenValue(text) ==
  LET e == IndexOf(text, "e")
  IN  IF e = -1 THEN parseFloat(text)
      ELSE TimesPow10(parseFloat(SubSeq(text, 1, e)),
                      NatOfDigits(SubSeq(text, e + 3, Len(text)), 0))

\* the suffix and the size of the unit that belong to a magnitude
UnitOf(a) ==
  IF JsLe(N(1000000000), a) THEN [suffix |-> <<"B">>, size |-> Dec(1, 9)]
  ELSE IF JsLe(N(1000000), a) THEN [suffix |-> <<"M">>, size |-> Dec(1, 6)]
  ELSE IF JsLe(N(1000), a) THEN [suffix |-> <<"K">>, size |-> Dec(1, 3)]
  ELSE [suffix |-> <<>>, size |-> N(1)]

\* C28: formatLargeNumber returns '0' for NaN and infinite input; otherwise
\* the suffix follows from the unrounded magnitude (B from 1e9, M from 1e6,
\* K from 1e3, none below), the number printed is the magnitude divided by
\* the unit and rounded to `precision` decimals, and the text starts with
\* '-' exactly when the value is below zero.
C28_SuffixFromUnrounded ==
  call.fn = "formatLargeNumber" =>
    LET value == call.arg.value
        ret   == call.ret
    IN  IF ~IsFiniteNum(value) THEN ret = <<"0">>
        ELSE LET a      == Norm(FALSE, value.mag, value.fl)
                 unit   == UnitOf(a)
                 signed == Head(ret) = "-"
                 rest   == IF signed THEN Tail(ret) ELSE ret
                 n      == Len(rest) - Len(unit.suffix)
                 number == SubSeq(rest, 1, n)
             IN  /\ signed = value.neg
                 /\ n >= 1
                 /\ SubSeq(rest, n + 1, Len(rest)) = unit.suffix
                 /\ CharsOf(number) \subseteq Digits \cup {".", "e", "+"}
                 /\ IsRoundingAwayFromZero(NumMul(a, unit.size),
                                           WrittenValue(number),
                                           call.arg.precision)

\* formatLargeNumber(1500000) is '1.5M'
C28_Witness ==
  /\ call.fn = "formatLargeNumber"
  /\ call.arg = [value |-> N(1500000), precision |-> 1]
  /\ call.ret = <<"1", ".", "5", "M">>

\* 999,999 is below 1e6 and is printed with K although it rounds to 1000
RoundsUpWithinUnit ==
  /\ call.fn = "formatLargeNumber"
  /\ call.arg = [value |-> N(999999), precision |-> 1]
  /\ call.ret = <<"1", "0", "0", "0", "K">>
\* C29: a value that validateNumericInput(t, k, false) accepts for a field
\* k is kept by sanitizeUsageParameters({k: v}): the sanitizer returns it
\* for k and does not reset it to 0.
C29_AcceptedValueKept ==
  (call.fn = "sanitizeUsageParameters" /\ "validated" \in DOMAIN call.ghost) =>
    LET k == call.ghost.validated.constraintKey
        r == validateNumericInput(call.ghost.validated.input, k, FALSE)
    IN  /\ r.isValid
        /\ call.arg = [j \in {k} |-> r.sanitizedValue]
        /\ call.ret[k] = r.sanitizedValue

\* the text '100000000', the largest count the validator accepts, is kept
C29_Witness ==
  /\ call.fn = "sanitizeUsageParameters"
  /\ "validated" \in DOMAIN call.ghost
  /\ call.ghost.validated.constraintKey = "gatewayApiInvocations"
  /\ call.ghost.validated.input = <<"1", "0", "0", "0", "0", "0", "0", "0", "0">>
  /\ call.ret["gatewayApiInvocations"] = N(100000000)

\* an accepted value with decimals for a field counted in hours is kept
AcceptedDecimalKept ==
  /\ call.fn = "sanitizeUsageParameters"
  /\ "validated" \in DOMAIN call.ghost
  /\ call.ghost.validated.constraintKey = "runtimeMemoryGBHours"
  /\ call.ret["runtimeMemoryGBHours"] = Dec(12345, 2)

=============================================================================
